---- MODULE Spec2Model ----
(***************************************************************************)
(* The control plane of the windowed data-movement pipeline: the drive     *)
(* store (drive_scripts.py), the stale reclaimer                           *)
(* (stale_detection_functions.py) and the capability arbiter               *)
(* (pipeline_capabilities.py).                                             *)
(*                                                                         *)
(* Python values are modelled as options: None is the empty sequence and   *)
(* a value v is the one-element sequence <<v>>, so that a column that      *)
(* holds NULL and a column that holds a value can be compared.  A string   *)
(* whose characters matter (a PIPELINE_ID that is stripped) is a sequence  *)
(* of one-character strings; every other string is a TLA+ string.          *)
(***************************************************************************)
EXTENDS Integers, Sequences, FiniteSets, Bags, TLC

None == <<>>
Some(v) == <<v>>

(***************************************************************************)
(* Bounds of the model.                                                    *)
(***************************************************************************)
\* The largest RETRY_ATTEMPT_NUMBER a row of the model starts with.
MaxRetry == 2

(***************************************************************************)
(* The drive row.  A row is a record whose fields are the upper-case       *)
(* column names of the drive table.                                        *)
(***************************************************************************)
Phases == <<"SRC_STG_XFER", "SRC_STG_AUDIT", "STG_TGT_XFER", "STG_TGT_AUDIT", "SRC_TGT_AUDIT">>

PhaseSet == {Phases[i] : i \in 1..Len(Phases)}

Col(P, suffix) == P \o "_" \o suffix

(***************************************************************************)
(* convert_to_pending, the body of its loop for one record.                *)
(***************************************************************************)
ResetPreValidation(record) ==
  [record EXCEPT !.PIPELINE_STATUS = Some("PENDING"),
                 !.PIPELINE_START_TIME = None,
                 !.PIPELINE_END_TIME = None,
                 !.PIPELINE_DURATION = None]

ResetPhase(record, P) ==
  [record EXCEPT ![Col(P, "STATUS")] = Some("PENDING"),
                 ![Col(P, "START_TS")] = None,
                 ![Col(P, "END_TS")] = None,
                 ![Col(P, "DURATION")] = None]

\* A cascade that resets the first enabled phase whatever its status.
PhaseCascade_FirstEnabled(record) ==
  IF (record.PHASE_COMPLETED = None \/ record.PHASE_COMPLETED = Some(""))
  THEN ResetPreValidation(record)
  ELSE IF \E i \in 1..Len(Phases) : record[Col(Phases[i], "ENABLED")] = Some(TRUE)
       THEN ResetPhase(record,
                       Phases[CHOOSE i \in 1..Len(Phases) :
                                /\ record[Col(Phases[i], "ENABLED")] = Some(TRUE)
                                /\ \A j \in 1..(i - 1) : record[Col(Phases[j], "ENABLED")] # Some(TRUE)])
       ELSE record

\* A cascade that resets the first phase in process whether or not it is enabled.
PhaseCascade_IgnoreEnabled(record) ==
  IF (record.PHASE_COMPLETED = None \/ record.PHASE_COMPLETED = Some(""))
  THEN ResetPreValidation(record)
  ELSE IF \E i \in 1..Len(Phases) : record[Col(Phases[i], "STATUS")] = Some("IN_PROCESS")
       THEN ResetPhase(record,
                       Phases[CHOOSE i \in 1..Len(Phases) :
                                /\ record[Col(Phases[i], "STATUS")] = Some("IN_PROCESS")
                                /\ \A j \in 1..(i - 1) : record[Col(Phases[j], "STATUS")] # Some("IN_PROCESS")])
       ELSE record

\* A cascade that resets every phase that is enabled and in process.
PhaseCascade_EveryStuck(record) ==
  IF (record.PHASE_COMPLETED = None \/ record.PHASE_COMPLETED = Some(""))
  THEN ResetPreValidation(record)
  ELSE LET stuck(P) == /\ record[Col(P, "ENABLED")] = Some(TRUE)
                       /\ record[Col(P, "STATUS")] = Some("IN_PROCESS")
           through(r, P) == IF stuck(P) THEN ResetPhase(r, P) ELSE r
       IN  through(through(through(through(through(record, Phases[1]), Phases[2]),
                                   Phases[3]), Phases[4]), Phases[5])

\* The nested cascade over the five phases, branch for branch.
PhaseCascade(record) ==
  IF (record.PHASE_COMPLETED = None \/ record.PHASE_COMPLETED = Some(""))  \* line 213
  THEN
    ResetPreValidation(record)  \* line 215
  ELSE
    IF record.SRC_STG_XFER_ENABLED = Some(TRUE)  \* line 221
    THEN
      IF record.SRC_STG_XFER_STATUS = Some("IN_PROCESS")  \* line 222
      THEN
        ResetPhase(record, "SRC_STG_XFER")  \* line 224
      ELSE
        IF record.SRC_STG_AUDIT_ENABLED = Some(TRUE)  \* line 230
        THEN
          IF record.SRC_STG_AUDIT_STATUS = Some("IN_PROCESS")  \* line 231
          THEN
            ResetPhase(record, "SRC_STG_AUDIT")  \* line 233
          ELSE
            IF record.STG_TGT_XFER_ENABLED = Some(TRUE)  \* line 239
            THEN
              IF record.STG_TGT_XFER_STATUS = Some("IN_PROCESS")  \* line 240
              THEN
                ResetPhase(record, "STG_TGT_XFER")  \* line 242
              ELSE
                IF record.STG_TGT_AUDIT_ENABLED = Some(TRUE)  \* line 248
                THEN
                  IF record.STG_TGT_AUDIT_STATUS = Some("IN_PROCESS")  \* line 249
                  THEN
                    ResetPhase(record, "STG_TGT_AUDIT")  \* line 251
                  ELSE
                    IF record.SRC_TGT_AUDIT_ENABLED = Some(TRUE)  \* line 257
                    THEN
                      IF record.SRC_TGT_AUDIT_STATUS = Some("IN_PROCESS")  \* line 258
                      THEN
                        ResetPhase(record, "SRC_TGT_AUDIT")  \* line 260
                      ELSE
                        record
                    ELSE
                      record
                ELSE
                  IF record.SRC_TGT_AUDIT_ENABLED = Some(TRUE)  \* line 267
                  THEN
                    IF record.SRC_TGT_AUDIT_STATUS = Some("IN_PROCESS")  \* line 268
                    THEN
                      ResetPhase(record, "SRC_TGT_AUDIT")  \* line 269
                    ELSE
                      record
                  ELSE
                    record
            ELSE
              IF record.STG_TGT_AUDIT_ENABLED = Some(TRUE)  \* line 275
              THEN
                IF record.STG_TGT_AUDIT_STATUS = Some("IN_PROCESS")  \* line 276
                THEN
                  ResetPhase(record, "STG_TGT_AUDIT")  \* line 277
                ELSE
                  IF record.SRC_TGT_AUDIT_ENABLED = Some(TRUE)  \* line 282
                  THEN
                    IF record.SRC_TGT_AUDIT_STATUS = Some("IN_PROCESS")  \* line 283
                    THEN
                      ResetPhase(record, "SRC_TGT_AUDIT")  \* line 284
                    ELSE
                      record
                  ELSE
                    record
              ELSE
                IF record.SRC_TGT_AUDIT_ENABLED = Some(TRUE)  \* line 289
                THEN
                  IF record.SRC_TGT_AUDIT_STATUS = Some("IN_PROCESS")  \* line 290
                  THEN
                    ResetPhase(record, "SRC_TGT_AUDIT")  \* line 291
                  ELSE
                    record
                ELSE
                  record
        ELSE
          IF record.STG_TGT_XFER_ENABLED = Some(TRUE)  \* line 297
          THEN
            IF record.STG_TGT_XFER_STATUS = Some("IN_PROCESS")  \* line 298
            THEN
              ResetPhase(record, "STG_TGT_XFER")  \* line 299
            ELSE
              IF record.STG_TGT_AUDIT_ENABLED = Some(TRUE)  \* line 304
              THEN
                IF record.STG_TGT_AUDIT_STATUS = Some("IN_PROCESS")  \* line 305
                THEN
                  ResetPhase(record, "STG_TGT_AUDIT")  \* line 306
                ELSE
                  IF record.SRC_TGT_AUDIT_ENABLED = Some(TRUE)  \* line 311
                  THEN
                    IF record.SRC_TGT_AUDIT_STATUS = Some("IN_PROCESS")  \* line 312
                    THEN
                      ResetPhase(record, "SRC_TGT_AUDIT")  \* line 313
                    ELSE
                      record
                  ELSE
                    record
              ELSE
                IF record.SRC_TGT_AUDIT_ENABLED = Some(TRUE)  \* line 318
                THEN
                  IF record.SRC_TGT_AUDIT_STATUS = Some("IN_PROCESS")  \* line 319
                  THEN
                    ResetPhase(record, "SRC_TGT_AUDIT")  \* line 320
                  ELSE
                    record
                ELSE
                  record
          ELSE
            IF record.STG_TGT_AUDIT_ENABLED = Some(TRUE)  \* line 326
            THEN
              IF record.STG_TGT_AUDIT_STATUS = Some("IN_PROCESS")  \* line 327
              THEN
                ResetPhase(record, "STG_TGT_AUDIT")  \* line 328
              ELSE
                IF record.SRC_TGT_AUDIT_ENABLED = Some(TRUE)  \* line 333
                THEN
                  IF record.SRC_TGT_AUDIT_STATUS = Some("IN_PROCESS")  \* line 334
                  THEN
                    ResetPhase(record, "SRC_TGT_AUDIT")  \* line 335
                  ELSE
                    record
                ELSE
                  record
            ELSE
              IF record.SRC_TGT_AUDIT_ENABLED = Some(TRUE)  \* line 340
              THEN
                IF record.SRC_TGT_AUDIT_STATUS = Some("IN_PROCESS")  \* line 341
                THEN
                  ResetPhase(record, "SRC_TGT_AUDIT")  \* line 342
                ELSE
                  record
              ELSE
                record
    ELSE
      IF record.SRC_STG_AUDIT_ENABLED = Some(TRUE)  \* line 348
      THEN
        IF record.SRC_STG_AUDIT_STATUS = Some("IN_PROCESS")  \* line 349
        THEN
          ResetPhase(record, "SRC_STG_AUDIT")  \* line 350
        ELSE
          IF record.STG_TGT_XFER_ENABLED = Some(TRUE)  \* line 356
          THEN
            IF record.STG_TGT_XFER_STATUS = Some("IN_PROCESS")  \* line 357
            THEN
              ResetPhase(record, "STG_TGT_XFER")  \* line 358
            ELSE
              IF record.STG_TGT_AUDIT_ENABLED = Some(TRUE)  \* line 363
              THEN
                IF record.STG_TGT_AUDIT_STATUS = Some("IN_PROCESS")  \* line 364
                THEN
                  ResetPhase(record, "STG_TGT_AUDIT")  \* line 365
                ELSE
                  IF record.SRC_TGT_AUDIT_ENABLED = Some(TRUE)  \* line 370
                  THEN
                    IF record.SRC_TGT_AUDIT_STATUS = Some("IN_PROCESS")  \* line 371
                    THEN
                      ResetPhase(record, "SRC_TGT_AUDIT")  \* line 372
                    ELSE
                      record
                  ELSE
                    record
              ELSE
                IF record.SRC_TGT_AUDIT_ENABLED = Some(TRUE)  \* line 377
                THEN
                  IF record.SRC_TGT_AUDIT_STATUS = Some("IN_PROCESS")  \* line 378
                  THEN
                    ResetPhase(record, "SRC_TGT_AUDIT")  \* line 379
                  ELSE
                    record
                ELSE
                  record
          ELSE
            IF record.STG_TGT_AUDIT_ENABLED = Some(TRUE)  \* line 385
            THEN
              IF record.STG_TGT_AUDIT_STATUS = Some("IN_PROCESS")  \* line 386
              THEN
                ResetPhase(record, "STG_TGT_AUDIT")  \* line 387
              ELSE
                IF record.SRC_TGT_AUDIT_ENABLED = Some(TRUE)  \* line 392
                THEN
                  IF record.SRC_TGT_AUDIT_STATUS = Some("IN_PROCESS")  \* line 393
                  THEN
                    ResetPhase(record, "SRC_TGT_AUDIT")  \* line 394
                  ELSE
                    record
                ELSE
                  record
            ELSE
              IF record.SRC_TGT_AUDIT_ENABLED = Some(TRUE)  \* line 399
              THEN
                IF record.SRC_TGT_AUDIT_STATUS = Some("IN_PROCESS")  \* line 400
                THEN
                  ResetPhase(record, "SRC_TGT_AUDIT")  \* line 401
                ELSE
                  record
              ELSE
                record
      ELSE
        IF record.STG_TGT_XFER_ENABLED = Some(TRUE)  \* line 407
        THEN
          IF record.STG_TGT_XFER_STATUS = Some("IN_PROCESS")  \* line 408
          THEN
            ResetPhase(record, "STG_TGT_XFER")  \* line 409
          ELSE
            IF record.STG_TGT_AUDIT_ENABLED = Some(TRUE)  \* line 414
            THEN
              IF record.STG_TGT_AUDIT_STATUS = Some("IN_PROCESS")  \* line 415
              THEN
                ResetPhase(record, "STG_TGT_AUDIT")  \* line 416
              ELSE
                IF record.SRC_TGT_AUDIT_ENABLED = Some(TRUE)  \* line 421
                THEN
                  IF record.SRC_TGT_AUDIT_STATUS = Some("IN_PROCESS")  \* line 422
                  THEN
                    ResetPhase(record, "SRC_TGT_AUDIT")  \* line 423
                  ELSE
                    record
                ELSE
                  record
            ELSE
              IF record.SRC_TGT_AUDIT_ENABLED = Some(TRUE)  \* line 428
              THEN
                IF record.SRC_TGT_AUDIT_STATUS = Some("IN_PROCESS")  \* line 429
                THEN
                  ResetPhase(record, "SRC_TGT_AUDIT")  \* line 430
                ELSE
                  record
              ELSE
                record
        ELSE
          IF record.STG_TGT_AUDIT_ENABLED = Some(TRUE)  \* line 436
          THEN
            IF record.STG_TGT_AUDIT_STATUS = Some("IN_PROCESS")  \* line 437
            THEN
              ResetPhase(record, "STG_TGT_AUDIT")  \* line 438
            ELSE
              IF record.SRC_TGT_AUDIT_ENABLED = Some(TRUE)  \* line 443
              THEN
                IF record.SRC_TGT_AUDIT_STATUS = Some("IN_PROCESS")  \* line 444
                THEN
                  ResetPhase(record, "SRC_TGT_AUDIT")  \* line 445
                ELSE
                  record
              ELSE
                record
          ELSE
            IF record.SRC_TGT_AUDIT_ENABLED = Some(TRUE)  \* line 450
            THEN
              IF record.SRC_TGT_AUDIT_STATUS = Some("IN_PROCESS")  \* line 451
              THEN
                ResetPhase(record, "SRC_TGT_AUDIT")  \* line 452
              ELSE
                record
            ELSE
              record

\* The retry counter of convert_to_pending: record.get(..., 0) or 0.
CurrentRetry(record) ==
  IF record.RETRY_ATTEMPT_NUMBER = None \/ record.RETRY_ATTEMPT_NUMBER = Some(0)
  THEN 0
  ELSE record.RETRY_ATTEMPT_NUMBER[1]

\* The loop body without the increment of the retry counter.
ConvertRecord_NoIncrement(record) ==
  [PhaseCascade(record) EXCEPT !.PIPELINE_STATUS = Some("PENDING"),
                               !.PIPELINE_START_TIME = None,
                               !.RETRY_ATTEMPT_NUMBER = Some(CurrentRetry(record))]

\* One pass of the loop of convert_to_pending over one record: the cascade,
\* then the status, the start time and the retry counter.
ConvertRecord(record) ==
  [PhaseCascade(record) EXCEPT !.PIPELINE_STATUS = Some("PENDING"),
                               !.PIPELINE_START_TIME = None,
                               !.RETRY_ATTEMPT_NUMBER = Some(CurrentRetry(record) + 1)]

(***************************************************************************)
(* Rows of the drive table.                                                *)
(***************************************************************************)
Statuses == {"PENDING", "IN_PROCESS", "COMPLETED", "FAILED"}

\* The columns of one phase as the workers leave them: a phase that has not
\* started has no timestamps, one in process has a start, one that ended has
\* all three.
PhaseBlock(P, enabled, status) ==
  LET started == status \in {Some("IN_PROCESS"), Some("COMPLETED"), Some("FAILED")}
      ended == status \in {Some("COMPLETED"), Some("FAILED")}
  IN  (Col(P, "ENABLED") :> Some(enabled)) @@
      (Col(P, "STATUS") :> status) @@
      (Col(P, "START_TS") :> IF started THEN Some(1) ELSE None) @@
      (Col(P, "END_TS") :> IF ended THEN Some(2) ELSE None) @@
      (Col(P, "DURATION") :> IF ended THEN Some(1) ELSE None)

\* The five phase blocks of a row; pv gives each phase its <<enabled, status>>.
PhaseBlocks(pv) ==
  PhaseBlock(Phases[1], pv[Phases[1]][1], pv[Phases[1]][2]) @@
  PhaseBlock(Phases[2], pv[Phases[2]][1], pv[Phases[2]][2]) @@
  PhaseBlock(Phases[3], pv[Phases[3]][1], pv[Phases[3]][2]) @@
  PhaseBlock(Phases[4], pv[Phases[4]][1], pv[Phases[4]][2]) @@
  PhaseBlock(Phases[5], pv[Phases[5]][1], pv[Phases[5]][2])

\* The columns of a row that belong to no phase.
TopLevel(id, window, status, start, finish, retry, phase_completed) ==
  [PIPELINE_ID |-> id,
   PIPELINE_NAME |-> Some("p1"),
   SOURCE_NAME |-> Some("s1"),
   SOURCE_CATEGORY |-> Some("c1"),
   SOURCE_SUB_TYPE |-> Some("t1"),
   QUERY_WINDOW_START_TIME |-> Some(window),
   QUERY_WINDOW_END_TIME |-> Some(window + 1),
   CONTINUITY_CHECK_PERFORMED |-> Some("YES"),
   CAN_FETCH_HISTORICAL_DATA |-> Some("YES"),
   PIPELINE_STATUS |-> Some(status),
   PIPELINE_START_TIME |-> start,
   PIPELINE_END_TIME |-> finish,
   PIPELINE_DURATION |-> IF finish = None THEN None ELSE Some(1),
   PIPELINE_EXP_DURATION |-> Some(<<"2", "s">>),
   RETRY_ATTEMPT_NUMBER |-> retry,
   PHASE_COMPLETED |-> phase_completed]

Row(top, pv) == top @@ PhaseBlocks(pv)

\* What a phase of a stale row may look like: enabled or not, in any status.
PhaseStates ==
  {<<TRUE, Some("IN_PROCESS")>>, <<TRUE, Some("COMPLETED")>>, <<TRUE, Some("FAILED")>>,
   <<TRUE, Some("PENDING")>>, <<FALSE, Some("IN_PROCESS")>>, <<FALSE, Some("COMPLETED")>>,
   <<FALSE, None>>}

PhaseVectors == [PhaseSet -> PhaseStates]

RetryValues == {None} \cup {Some(n) : n \in 0..MaxRetry}

PhaseCompletedValues == {None, Some(""), Some("PRE_VALIDATION")}

\* The stale rows the resetter is applied to: every phase vector under a set
\* and an unset PHASE_COMPLETED, and every top-level shape under two vectors.
StaleRows ==
  {Row(TopLevel(Some(<<"A">>), 1, "IN_PROCESS", Some(1), None, Some(1), pc), pv) :
      pc \in {None, Some("PRE_VALIDATION")}, pv \in PhaseVectors}
  \cup
  {Row(TopLevel(Some(<<"A">>), 1, "IN_PROCESS", Some(1), finish, retry, pc), pv) :
      finish \in {None, Some(2)}, retry \in RetryValues, pc \in PhaseCompletedValues,
      pv \in {[P \in PhaseSet |-> <<TRUE, Some("IN_PROCESS")>>],
              [P \in PhaseSet |-> <<FALSE, None>>]}}

(***************************************************************************)
(* Strings.                                                                *)
(***************************************************************************)
Whitespace == {" "}

Digits == <<"0", "1", "2", "3", "4", "5", "6", "7", "8", "9">>

IsDigit(c) == \E n \in 1..Len(Digits) : Digits[n] = c

DigitValue(c) == (CHOOSE n \in 1..Len(Digits) : Digits[n] = c) - 1

\* str.strip(): the string without its leading and trailing whitespace.
Strip(s) ==
  LET kept == {i \in 1..Len(s) : s[i] \notin Whitespace}
  IN  IF kept = {} THEN <<>>
      ELSE LET first == CHOOSE i \in kept : \A j \in kept : i <= j
               last == CHOOSE i \in kept : \A j \in kept : j <= i
           IN  SubSeq(s, first, last)

\* int() of a run of digits.
RECURSIVE IntOf(_)
IntOf(ds) ==
  IF ds = <<>> THEN 0 ELSE 10 * IntOf(SubSeq(ds, 1, Len(ds) - 1)) + DigitValue(ds[Len(ds)])

\* re.search(r'(\d+)<unit>', s): the digits of the leftmost match, None when
\* nothing matches.  A match starts at the first digit of the leftmost run
\* of digits that the unit letter follows.
SearchUnit(s, unit) ==
  LET ends == {j \in 2..Len(s) : s[j] = unit /\ IsDigit(s[j - 1])}
  IN  IF ends = {} THEN None
      ELSE LET j == CHOOSE e \in ends : \A f \in ends : e <= f
               i == CHOOSE b \in 1..(j - 1) :
                      /\ \A k \in b..(j - 1) : IsDigit(s[k])
                      /\ (b = 1 \/ ~IsDigit(s[b - 1]))
           IN  Some(SubSeq(s, i, j - 1))

\* The seconds of the unit letters, in the order the parser tries them.
UnitSeconds == <<<<"d", 86400>>, <<"h", 3600>>, <<"m", 60>>, <<"s", 1>>>>

\* parse_duration_to_seconds of the stale evaluator: the sum over the units
\* that match; a sum of zero raises (None).
ParseDurationToSeconds(duration_str) ==
  LET term(k) == LET m == SearchUnit(duration_str, UnitSeconds[k][1])
                 IN  IF m = None THEN 0 ELSE IntOf(m[1]) * UnitSeconds[k][2]
      total_seconds == term(1) + term(2) + term(3) + term(4)
  IN  IF total_seconds = 0 THEN None ELSE Some(total_seconds)

\* parse_duration_string_to_seconds of the drive store: the sum over the
\* units that match; it raises (None) only when no unit matches.
ParseDurationStringToSeconds(duration_string) ==
  LET match(k) == SearchUnit(duration_string, UnitSeconds[k][1])
      seconds(k) == IF match(k) = None THEN 0 ELSE IntOf(match(k)[1]) * UnitSeconds[k][2]
      valid_unit_found == \E k \in 1..Len(UnitSeconds) : match(k) # None
      total_seconds == seconds(1) + seconds(2) + seconds(3) + seconds(4)
  IN  IF ~valid_unit_found THEN None ELSE Some(total_seconds)

(***************************************************************************)
(* Validation of the drive store's arguments.                              *)
(***************************************************************************)
\* validate_pipeline_id: the stripped id, or None where it raises ValueError
\* (the id is None, empty or only whitespace).
ValidatePipelineId(pipeline_id) ==
  IF pipeline_id = None THEN None
  ELSE IF Strip(pipeline_id[1]) = <<>> THEN None
  ELSE Some(Strip(pipeline_id[1]))

\* validate_record_pair: the validated id of the pair, or None where it
\* raises ValueError.
ValidateRecordPair(original_record, updated_record) ==
  LET validated_original == ValidatePipelineId(original_record.PIPELINE_ID)
      validated_updated == ValidatePipelineId(updated_record.PIPELINE_ID)
  IN  IF validated_original = None \/ validated_updated = None THEN None
      ELSE IF validated_original # validated_updated THEN None
      ELSE validated_original

\* The keys validate_config_structure requires of the config.
RequiredConfigKeys ==
  {"sf_drive_config", "PIPELINE_NAME", "SOURCE_NAME", "SOURCE_CATEGORY", "SOURCE_SUB_TYPE"}

\* validate_config_structure: TRUE where it returns, FALSE where it raises.
ValidateConfigStructure(config) == RequiredConfigKeys \subseteq DOMAIN config

\* The config of the pipeline the model runs.
FullConfig ==
  [sf_drive_config |-> [account |-> "acct", user |-> "svc", password |-> "secret",
                        warehouse |-> "wh", database |-> "db", schema |-> "sch",
                        table |-> "drive"],
   PIPELINE_NAME |-> "p1", SOURCE_NAME |-> "s1", SOURCE_CATEGORY |-> "c1",
   SOURCE_SUB_TYPE |-> "t1", timezone |-> "UTC", stale_threshold_factor |-> 1,
   PIPELINE_EXP_DURATION |-> <<"2", "s">>]

Without(config, key) == [k \in (DOMAIN config) \ {key} |-> config[k]]

\* The configs a caller may pass.
Configs == {FullConfig, Without(FullConfig, "sf_drive_config"), Without(FullConfig, "SOURCE_NAME")}

(***************************************************************************)
(* The drive table as the warehouse holds it: a bag of rows.  A session    *)
(* with autocommit off keeps what it deleted and inserted to itself until  *)
(* it commits; its own statements see the committed rows less what it      *)
(* deleted plus what it inserted.                                          *)
(***************************************************************************)
\* WHERE PIPELINE_ID = %(PIPELINE_ID)s over a bag of rows.
Matching(rows, pipeline_id) ==
  [r \in {x \in DOMAIN rows : x.PIPELINE_ID = Some(pipeline_id)} |-> rows[r]]

\* What a statement of the session sees.
View(committed, s) == (committed (-) s.deleted) (+) s.inserted

(***************************************************************************)
(* State.                                                                  *)
(***************************************************************************)
VARIABLES
  record,   \* the stale record handed to the resetter
  updated,  \* the record the resetter produced from it, None before it ran
  arb,      \* the capability arbiter: its program counter, inputs and outputs
  table,    \* the committed rows of the drive table, a bag
  session,  \* the drive store's connection and its open transaction
  call,     \* the drive-store call in progress: arguments, position, outcome
  tick,     \* the reclaimer tick in progress: position, lists, counters
  shadow,   \* the committed rows as they would be without the call in progress
  initial   \* the committed rows the behaviour started from

resetVars == <<record, updated>>
storeVars == <<table, session, call, shadow>>
tickVars == <<tick, initial>>
vars == <<record, updated, arb, table, session, call, tick, shadow, initial>>

\* The resetter at rest.
ResetIdle == record = None /\ updated = None

\* The arbiter before its first invocation.  The last field keeps what the
\* invocation before the current one was given and what it returned.
ArbIdle ==
  arb = [pc |-> "idle", dag_run_id |-> None, probe |-> 1, outcomes |-> <<>>,
         status |-> <<>>, events |-> <<>>, decision |-> None, result |-> None,
         error |-> None, earlier |-> None]

\* No connection: what the store holds between calls.  The last field counts
\* the connections that were opened and not yet handed to conn.close().
NoSession ==
  [conn |-> "none", autocommit |-> TRUE, deleted |-> EmptyBag, inserted |-> EmptyBag,
   held |-> 0]

\* No call in progress.  Two fields count the connections the call opened
\* and its calls of conn.close(); payloads holds what the log events that
\* carry the drive config carried.
NoCall ==
  [op |-> "none", pc |-> "idle", caller |-> "none", original |-> None, updated |-> None,
   pipeline_id |-> None, records_found |-> None, before_image |-> None,
   delete_rows_affected |-> None, insert_rows_affected |-> None,
   committed |-> FALSE, failed_at |-> None, error |-> None, events |-> <<>>,
   config |-> None, now |-> None, max_accepted_time |-> None, results |-> None,
   opened |-> 0, closed |-> 0, payloads |-> <<>>, terms |-> None, duration_string |-> None,
   total_seconds |-> None]

\* The drive store at rest over an empty table.
StoreIdle == table = EmptyBag /\ session = NoSession /\ call = NoCall /\ shadow = EmptyBag

\* No tick in progress.  Four fields are the history of the tick: whether
\* each call of send_stale_process_alert returned, the original records handed to the
\* replacement in the order of the calls, whether each call committed, and
\* the records the evaluator logged a warning for.
NoTick ==
  [pc |-> "idle", config |-> FullConfig, now |-> 0, in_progress_records |-> <<>>, stale_records |-> <<>>,
   original_stale_records |-> <<>>, i |-> 1, converted_count |-> 0,
   successfully_processed |-> 0, failed_operations |-> 0, result |-> None, error |-> None,
   alerts |-> <<>>, submitted |-> <<>>, outcomes |-> <<>>, warnings |-> <<>>]

\* The reclaimer at rest.
TickIdle == tick = NoTick /\ initial = EmptyBag

(***************************************************************************)
(* The resetter on one stale row.                                          *)
(***************************************************************************)
InitReset == record \in StaleRows /\ updated = None /\ ArbIdle /\ StoreIdle /\ TickIdle

Convert ==
  /\ record # None
  /\ updated = None
  /\ updated' = Some(ConvertRecord(record))
  /\ UNCHANGED <<record, arb, storeVars, tickVars>>

NextReset == Convert

SpecReset == InitReset /\ [][NextReset]_vars

\* The four fields of phase P that the resetter may write.
PhaseFields(r, P) ==
  <<r[Col(P, "STATUS")], r[Col(P, "START_TS")], r[Col(P, "END_TS")], r[Col(P, "DURATION")]>>

PhaseIsReset(r, P) == PhaseFields(r, P) = <<Some("PENDING"), None, None, None>>

\* Phase P is the one the cascade finds stuck: PHASE_COMPLETED is set, P is
\* enabled and in process, and no earlier phase is.
StuckAt(r, i) ==
  /\ r.PHASE_COMPLETED # None
  /\ r.PHASE_COMPLETED # Some("")
  /\ r[Col(Phases[i], "ENABLED")] = Some(TRUE)
  /\ r[Col(Phases[i], "STATUS")] = Some("IN_PROCESS")
  /\ \A j \in 1..(i - 1) :
       ~(r[Col(Phases[j], "ENABLED")] = Some(TRUE) /\ r[Col(Phases[j], "STATUS")] = Some("IN_PROCESS"))

\* C6: the row the resetter produces is PENDING and its retry_attempt_number
\* is the input's (null taken as 0) plus exactly 1.
C6_RetryIncrementedByOne ==
  updated # None =>
    /\ updated[1].PIPELINE_STATUS = Some("PENDING")
    /\ updated[1].RETRY_ATTEMPT_NUMBER =
         Some((IF record.RETRY_ATTEMPT_NUMBER = None THEN 0 ELSE record.RETRY_ATTEMPT_NUMBER[1]) + 1)

C6_Witness ==
  /\ updated # None
  /\ record.RETRY_ATTEMPT_NUMBER = Some(MaxRetry)
  /\ updated[1].RETRY_ATTEMPT_NUMBER = Some(MaxRetry + 1)

\* C7: the row the resetter produces has pipeline_start_time,
\* pipeline_end_time and pipeline_duration all null.
C7_TopLevelTimingCleared ==
  updated # None =>
    /\ updated[1].PIPELINE_START_TIME = None
    /\ updated[1].PIPELINE_END_TIME = None
    /\ updated[1].PIPELINE_DURATION = None

\* C8: a phase that is COMPLETED in the input keeps its status, its two
\* timestamps and its duration in the output.
C8_CompletedPhasePreserved ==
  updated # None =>
    \A P \in PhaseSet :
      record[Col(P, "STATUS")] = Some("COMPLETED") =>
        PhaseFields(updated[1], P) = PhaseFields(record, P)

C8_Witness ==
  /\ updated # None
  /\ record.SRC_STG_XFER_STATUS = Some("COMPLETED")
  /\ record.SRC_STG_XFER_ENABLED = Some(TRUE)
  /\ updated[1].SRC_STG_XFER_END_TS = Some(2)
  /\ record.STG_TGT_XFER_STATUS = Some("IN_PROCESS")
  /\ PhaseIsReset(updated[1], "STG_TGT_XFER")

ProbeNames == <<"SOURCE", "STAGE", "TARGET", "DRIVE">>

\* What a probe does: it answers, or it raises.
ProbeOutcomes == {"true", "false", "raises"}

\* The values config.get('dag_run_id') takes.
DagRunIds == {None, Some(""), Some("d1"), Some("d2")}

\* A decision that grants stage-to-target when stage or target is available.
Capabilities_StageOrTarget(drive_available, source_available, stage_available, target_available) ==
  IF ~drive_available \/ ~(source_available \/ stage_available \/ target_available)
  THEN [exit_dag |-> TRUE, can_process_source_to_stage |-> FALSE,
        can_process_stage_to_target |-> FALSE, severity |-> "CRITICAL",
        title |-> "Pipeline Aborted - Drive Connection Missing",
        level |-> "error", keyword |-> "DRIVE_CONNECTION_FAILED"]
  ELSE [exit_dag |-> FALSE,
        can_process_source_to_stage |-> source_available /\ stage_available,
        can_process_stage_to_target |-> stage_available \/ target_available,
        severity |-> "INFO", title |-> "Complete Pipeline Execution",
        level |-> "info", keyword |-> "CAPABILITY_CHECK_COMPLETE"]

\* A decision whose alert is INFO as soon as one transfer is possible.
Capabilities_InfoWhenAnyTransfer(drive_available, source_available, stage_available, target_available) ==
  IF ~drive_available
  THEN [exit_dag |-> TRUE, can_process_source_to_stage |-> FALSE,
        can_process_stage_to_target |-> FALSE, severity |-> "CRITICAL",
        title |-> "Pipeline Aborted - Drive Connection Missing",
        level |-> "error", keyword |-> "DRIVE_CONNECTION_FAILED"]
  ELSE IF ~(source_available \/ stage_available \/ target_available)
  THEN [exit_dag |-> TRUE, can_process_source_to_stage |-> FALSE,
        can_process_stage_to_target |-> FALSE, severity |-> "WARNING",
        title |-> "No Data Connections Available",
        level |-> "warning", keyword |-> "NO_DATA_CONNECTIONS"]
  ELSE LET can_do_source_to_stage == source_available /\ stage_available
           can_do_stage_to_target == stage_available /\ target_available
           subject ==
             IF can_do_source_to_stage \/ can_do_stage_to_target
             THEN <<"INFO", "Complete Pipeline Execution">>
             ELSE <<"WARNING", "No Data Transfers Possible">>
       IN  [exit_dag |-> FALSE,
            can_process_source_to_stage |-> can_do_source_to_stage,
            can_process_stage_to_target |-> can_do_stage_to_target,
            severity |-> subject[1], title |-> subject[2],
            level |-> "info", keyword |-> "CAPABILITY_CHECK_COMPLETE"]

\* The decision of determine_pipeline_capabilities: what it returns, the
\* alert it sends and the log call that follows the alert.
Capabilities(drive_available, source_available, stage_available, target_available) ==
  IF ~drive_available
  THEN [exit_dag |-> TRUE, can_process_source_to_stage |-> FALSE,
        can_process_stage_to_target |-> FALSE, severity |-> "CRITICAL",
        title |-> "Pipeline Aborted - Drive Connection Missing",
        level |-> "error", keyword |-> "DRIVE_CONNECTION_FAILED"]
  ELSE IF ~(source_available \/ stage_available \/ target_available)
  THEN [exit_dag |-> TRUE, can_process_source_to_stage |-> FALSE,
        can_process_stage_to_target |-> FALSE, severity |-> "WARNING",
        title |-> "No Data Connections Available",
        level |-> "warning", keyword |-> "NO_DATA_CONNECTIONS"]
  ELSE LET can_do_source_to_stage == source_available /\ stage_available
           can_do_stage_to_target == stage_available /\ target_available
           subject ==
             IF can_do_source_to_stage /\ can_do_stage_to_target
             THEN <<"INFO", "Complete Pipeline Execution">>
             ELSE IF can_do_source_to_stage /\ ~can_do_stage_to_target
             THEN <<"WARNING", "Partial Pipeline - Source to Stage Only">>
             ELSE IF ~can_do_source_to_stage /\ can_do_stage_to_target
             THEN <<"WARNING", "Partial Pipeline - Stage to Target Only">>
             ELSE <<"WARNING", "No Data Transfers Possible">>
       IN  [exit_dag |-> FALSE,
            can_process_source_to_stage |-> can_do_source_to_stage,
            can_process_stage_to_target |-> can_do_stage_to_target,
            severity |-> subject[1], title |-> subject[2],
            level |-> "info", keyword |-> "CAPABILITY_CHECK_COMPLETE"]

\* The log call made at each place of the two functions, and the place that
\* follows it.
ArbLogSites == {"health_start", "crash_log", "test_log", "health_complete",
                "capability_start", "decision_log"}

ArbLogEvent(a) ==
  CASE a.pc = "health_start" -> <<"log", "info", "HEALTH_CHECK_START">>
    [] a.pc = "crash_log" -> <<"log", "warning", ProbeNames[a.probe] \o "_CONNECTION_CRASH">>
    [] a.pc = "test_log" -> <<"log", "info", ProbeNames[a.probe] \o "_CONNECTION_TEST">>
    [] a.pc = "health_complete" -> <<"log", "info", "HEALTH_CHECK_COMPLETE">>
    [] a.pc = "capability_start" -> <<"log", "info", "CAPABILITY_CHECK_START">>
    [] a.pc = "decision_log" -> <<"log", a.decision[1].level, a.decision[1].keyword,
                                  a.dag_run_id[1]>>

ArbAfterLog(a) ==
  CASE a.pc = "health_start" -> [a EXCEPT !.pc = "probe"]
    [] a.pc = "crash_log" -> [a EXCEPT !.pc = "test_log"]
    [] a.pc = "test_log" -> IF a.probe < Len(ProbeNames)
                            THEN [a EXCEPT !.pc = "probe", !.probe = a.probe + 1]
                            ELSE [a EXCEPT !.pc = "health_complete"]
    [] a.pc = "health_complete" -> [a EXCEPT !.pc = "capability_start"]
    [] a.pc = "capability_start" -> [a EXCEPT !.pc = "decide"]
    [] a.pc = "decision_log" -> [a EXCEPT !.pc = "return"]

InitArbiter == ResetIdle /\ ArbIdle /\ StoreIdle /\ TickIdle

\* The invocation that returned last, as the next one finds it: the four
\* flags, the dag_run_id and the dictionary returned.
Earlier(a) ==
  IF a.pc = "returned"
  THEN Some([status |-> a.status, dag_run_id |-> a.dag_run_id, result |-> a.result[1]])
  ELSE a.earlier

\* An arbiter whose data transfers depend on the dag_run_id of the config.
ArbDecide_ByDagRunId ==
  /\ arb.pc = "decide"
  /\ arb' = [arb EXCEPT !.pc = "alert",
                        !.decision =
                          Some(Capabilities(arb.status[4], arb.status[1],
                                            arb.status[2] /\ arb.dag_run_id = Some("d1"),
                                            arb.status[3]))]
  /\ UNCHANGED <<resetVars, storeVars, tickVars>>

\* An arbiter that starts its health check whatever dag_run_id is.
ArbStart_NoValidation(dag_run_id) ==
  /\ arb.pc \in {"idle", "returned", "raised"}
  /\ arb' = [pc |-> "health_start",
             dag_run_id |-> dag_run_id, probe |-> 1, outcomes |-> <<>>, status |-> <<>>,
             events |-> <<>>, decision |-> None, result |-> None, error |-> None,
             earlier |-> Earlier(arb)]
  /\ UNCHANGED <<resetVars, storeVars, tickVars>>

\* determine_pipeline_capabilities is called: it validates dag_run_id and
\* calls check_all_connections, which validates it again.
ArbStart(dag_run_id) ==
  /\ arb.pc \in {"idle", "returned", "raised"}
  /\ arb' = [pc |-> IF dag_run_id = None \/ dag_run_id = Some("") THEN "raised" ELSE "health_start",
             dag_run_id |-> dag_run_id, probe |-> 1, outcomes |-> <<>>, status |-> <<>>,
             events |-> <<>>, decision |-> None, result |-> None,
             error |-> IF dag_run_id = None \/ dag_run_id = Some("")
                       THEN Some("Required config field 'dag_run_id' is missing")
                       ELSE None,
             earlier |-> Earlier(arb)]
  /\ UNCHANGED <<resetVars, storeVars, tickVars>>

\* An arbiter that goes on when its logger raises.
ArbLog_Swallow(logger_ok) ==
  /\ arb.pc \in ArbLogSites
  /\ arb' = IF logger_ok
            THEN [ArbAfterLog(arb) EXCEPT !.events = Append(arb.events, ArbLogEvent(arb))]
            ELSE ArbAfterLog(arb)
  /\ UNCHANGED <<resetVars, storeVars, tickVars>>

\* One logger call; a logger that raises ends the invocation.
ArbLog(logger_ok) ==
  /\ arb.pc \in ArbLogSites
  /\ arb' = IF logger_ok
            THEN [ArbAfterLog(arb) EXCEPT !.events = Append(arb.events, ArbLogEvent(arb))]
            ELSE [arb EXCEPT !.pc = "raised", !.error = Some("Critical: Logger failed")]
  /\ UNCHANGED <<resetVars, storeVars, tickVars>>

\* One probe: test_<name>_connection(config).
ArbProbe(outcome) ==
  /\ arb.pc = "probe"
  /\ arb' = [arb EXCEPT !.pc = IF outcome = "raises" THEN "crash_log" ELSE "test_log",
                        !.outcomes = Append(arb.outcomes, outcome),
                        !.status = Append(arb.status, outcome = "true"),
                        !.events = Append(arb.events, <<"probe", ProbeNames[arb.probe]>>)]
  /\ UNCHANGED <<resetVars, storeVars, tickVars>>

\* The branch taken on the four flags.
ArbDecide ==
  /\ arb.pc = "decide"
  /\ arb' = [arb EXCEPT !.pc = "alert",
                        !.decision = Some(Capabilities(arb.status[4], arb.status[1],
                                                       arb.status[2], arb.status[3]))]
  /\ UNCHANGED <<resetVars, storeVars, tickVars>>

\* An arbiter that goes on to its decision when the dispatcher raises.
ArbSendAlert_Swallow(alert_ok) ==
  /\ arb.pc = "alert"
  /\ arb' = IF alert_ok
            THEN [arb EXCEPT !.pc = "decision_log",
                             !.events = Append(arb.events,
                                 <<"alert", arb.decision[1].severity, arb.decision[1].title,
                                   arb.dag_run_id[1]>>)]
            ELSE [arb EXCEPT !.pc = "decision_log"]
  /\ UNCHANGED <<resetVars, storeVars, tickVars>>

\* An arbiter that dispatches its alert before and after the log of the
\* decision.
ArbSendAlert_Twice(alert_ok) ==
  /\ arb.pc = "alert"
  /\ arb' = IF alert_ok
            THEN LET alert == <<"alert", arb.decision[1].severity, arb.decision[1].title,
                                arb.dag_run_id[1]>>
                     log == <<"log", arb.decision[1].level, arb.decision[1].keyword,
                              arb.dag_run_id[1]>>
                 IN  [arb EXCEPT !.pc = "return",
                                 !.events = arb.events \o <<alert, log, alert>>]
            ELSE [arb EXCEPT !.pc = "raised", !.error = Some("Critical: Cannot send alert")]
  /\ UNCHANGED <<resetVars, storeVars, tickVars>>

\* send_email_alert; a dispatcher that raises ends the invocation.
ArbSendAlert(alert_ok) ==
  /\ arb.pc = "alert"
  /\ arb' = IF alert_ok
            THEN [arb EXCEPT !.pc = "decision_log",
                             !.events = Append(arb.events,
                                 <<"alert", arb.decision[1].severity, arb.decision[1].title,
                                   arb.dag_run_id[1]>>)]
            ELSE [arb EXCEPT !.pc = "raised", !.error = Some("Critical: Cannot send alert")]
  /\ UNCHANGED <<resetVars, storeVars, tickVars>>

\* The dictionary is returned to the caller.
ArbReturn ==
  /\ arb.pc = "return"
  /\ arb' = [arb EXCEPT !.pc = "returned",
                        !.result = Some([exit_dag |-> arb.decision[1].exit_dag,
                                         can_process_source_to_stage |->
                                           arb.decision[1].can_process_source_to_stage,
                                         can_process_stage_to_target |->
                                           arb.decision[1].can_process_stage_to_target])]
  /\ UNCHANGED <<resetVars, storeVars, tickVars>>

NextArbiter ==
  \/ \E dag_run_id \in DagRunIds : ArbStart(dag_run_id)
  \/ \E logger_ok \in BOOLEAN : ArbLog(logger_ok)
  \/ \E outcome \in ProbeOutcomes : ArbProbe(outcome)
  \/ ArbDecide
  \/ \E alert_ok \in BOOLEAN : ArbSendAlert(alert_ok)
  \/ ArbReturn

SpecArbiter == InitArbiter /\ [][NextArbiter]_vars

\* The health of a system as the probes showed it: a probe that answered
\* true, and nothing else, makes it available.
Healthy(name) ==
  \E i \in 1..Len(ProbeNames) : ProbeNames[i] = name /\ arb.outcomes[i] = "true"

\* C10: with dag_run_id present and logger and dispatcher working, the
\* arbiter returns exit_dag = not drive or not (source or stage or target),
\* can_src_to_stg = drive and source and stage, and can_stg_to_tgt = drive
\* and stage and target, for each combination of the four health booleans.
C10_DecisionTable ==
  arb.pc = "returned" =>
    /\ arb.result[1].exit_dag =
         (~Healthy("DRIVE") \/ ~(Healthy("SOURCE") \/ Healthy("STAGE") \/ Healthy("TARGET")))
    /\ arb.result[1].can_process_source_to_stage =
         (Healthy("DRIVE") /\ Healthy("SOURCE") /\ Healthy("STAGE"))
    /\ arb.result[1].can_process_stage_to_target =
         (Healthy("DRIVE") /\ Healthy("STAGE") /\ Healthy("TARGET"))

C10_Witness ==
  /\ arb.pc = "returned"
  /\ arb.dag_run_id = Some("d1")
  /\ arb.outcomes = <<"false", "true", "true", "true">>
  /\ arb.result = Some([exit_dag |-> FALSE, can_process_source_to_stage |-> FALSE,
                        can_process_stage_to_target |-> TRUE])

\* The alerts the arbiter has dispatched: <<"alert", severity, title, dag_run_id>>.
AlertsSent == {arb.events[k] : k \in {j \in 1..Len(arb.events) : arb.events[j][1] = "alert"}}

\* C11: the alert the arbiter dispatches is CRITICAL when drive is
\* unavailable, INFO when source, stage, target and drive are all available
\* and WARNING in every other combination, and its subject carries the
\* dag_run_id of the config.
C11_AlertSeverity ==
  \A alert \in AlertsSent :
    /\ alert[2] = IF ~Healthy("DRIVE") THEN "CRITICAL"
                  ELSE IF Healthy("SOURCE") /\ Healthy("STAGE") /\ Healthy("TARGET") THEN "INFO"
                  ELSE "WARNING"
    /\ arb.dag_run_id # None
    /\ arb.dag_run_id # Some("")
    /\ alert[4] = arb.dag_run_id[1]

\* Target down and the rest up: a WARNING for the partial pipeline.
C11_Witness ==
  /\ arb.outcomes = <<"true", "true", "false", "true">>
  /\ AlertsSent = {<<"alert", "WARNING", "Partial Pipeline - Source to Stage Only", "d1">>}

\* C12: when the alert dispatcher fails the arbiter raises, whatever the
\* branch of the decision table, and no decision reaches the caller: past
\* the dispatch there is always an alert that was sent.
C12_AlertFailureIsFatal ==
  /\ arb.error = Some("Critical: Cannot send alert") =>
       arb.pc = "raised" /\ arb.result = None
  /\ (arb.pc \in {"decision_log", "return", "returned"} \/ arb.result # None) =>
       AlertsSent # {}

\* The dispatcher failed on the alert of a partial pipeline.
C12_Witness ==
  /\ arb.pc = "raised"
  /\ arb.error = Some("Critical: Cannot send alert")
  /\ arb.decision # None
  /\ arb.decision[1].title = "Partial Pipeline - Stage to Target Only"
  /\ AlertsSent = {}
  /\ arb.result = None

\* C13: with dag_run_id missing or empty the arbiter fails with the
\* configuration error before a probe is invoked and before an alert is
\* dispatched.
C13_MissingDagRunIdFailsFirst ==
  (arb.pc # "idle" /\ arb.dag_run_id \in {None, Some("")}) =>
    /\ arb.pc = "raised"
    /\ arb.error = Some("Required config field 'dag_run_id' is missing")
    /\ arb.outcomes = <<>>
    /\ arb.events = <<>>
    /\ arb.result = None

\* The arbiter was called with an empty dag_run_id.
C13_Witness ==
  /\ arb.pc = "raised"
  /\ arb.dag_run_id = Some("")
  /\ arb.error = Some("Required config field 'dag_run_id' is missing")

(***************************************************************************)
(* The earlier revision of check_all_connections, the one of the module    *)
(* connection_health_check: no validation of dag_run_id, and no try around *)
(* a probe or a logger call.                                               *)
(***************************************************************************)
LegacyLogSites == {"legacy_start", "legacy_test_log", "legacy_complete"}

LegacyStart(dag_run_id) ==
  /\ arb.pc \in {"idle", "returned", "raised", "legacy_returned", "legacy_raised"}
  /\ arb' = [pc |-> "legacy_start", dag_run_id |-> dag_run_id, probe |-> 1,
             outcomes |-> <<>>, status |-> <<>>, events |-> <<>>, decision |-> None,
             result |-> None, error |-> None, earlier |-> Earlier(arb)]
  /\ UNCHANGED <<resetVars, storeVars, tickVars>>

\* One logger call; the exception of a logger that raises leaves the
\* function.  The last call is followed by the return of the four flags.
LegacyLog(logger_ok) ==
  /\ arb.pc \in LegacyLogSites
  /\ arb' =
       IF ~logger_ok
       THEN [arb EXCEPT !.pc = "legacy_raised", !.error = Some("logger raised")]
       ELSE CASE arb.pc = "legacy_start" ->
                   [arb EXCEPT !.pc = "legacy_probe",
                               !.events = Append(@, <<"log", "info", "HEALTH_CHECK_START">>)]
              [] arb.pc = "legacy_test_log" ->
                   [arb EXCEPT !.pc = IF arb.probe < Len(ProbeNames) THEN "legacy_probe"
                                      ELSE "legacy_complete",
                               !.probe = IF arb.probe < Len(ProbeNames) THEN @ + 1 ELSE @,
                               !.events = Append(@, <<"log", "info",
                                                      ProbeNames[arb.probe] \o "_CONNECTION_TEST">>)]
              [] arb.pc = "legacy_complete" ->
                   [arb EXCEPT !.pc = "legacy_returned",
                               !.events = Append(@, <<"log", "info", "HEALTH_CHECK_COMPLETE">>)]
  /\ UNCHANGED <<resetVars, storeVars, tickVars>>

\* One probe; the exception of a probe that raises leaves the function.
LegacyProbe(outcome) ==
  /\ arb.pc = "legacy_probe"
  /\ arb' = IF outcome = "raises"
            THEN [arb EXCEPT !.pc = "legacy_raised",
                             !.error = Some("probe raised"),
                             !.outcomes = Append(@, outcome),
                             !.events = Append(@, <<"probe", ProbeNames[arb.probe]>>)]
            ELSE [arb EXCEPT !.pc = "legacy_test_log",
                             !.outcomes = Append(@, outcome),
                             !.status = Append(@, outcome = "true"),
                             !.events = Append(@, <<"probe", ProbeNames[arb.probe]>>)]
  /\ UNCHANGED <<resetVars, storeVars, tickVars>>

\* Both revisions of the health check, the later one as the arbiter calls it.
NextHealth ==
  \/ NextArbiter
  \/ \E dag_run_id \in DagRunIds : LegacyStart(dag_run_id)
  \/ \E logger_ok \in BOOLEAN : LegacyLog(logger_ok)
  \/ \E outcome \in ProbeOutcomes : LegacyProbe(outcome)

SpecHealth == InitArbiter /\ [][NextHealth]_vars

\* The probes invoked so far, in the order of their invocation.
ProbesInvoked == SelectSeq(arb.events, LAMBDA e : e[1] = "probe")

\* The errors that are not the health check's own: a logger that raised, a
\* dag_run_id that is missing, a dispatcher that raised.
ForeignErrors ==
  {Some("Critical: Logger failed"), Some("logger raised"),
   Some("Required config field 'dag_run_id' is missing"),
   Some("Critical: Cannot send alert")}

\* C14: check_all_connections invokes the four probes once each in the
\* order source, stage, target, drive, whatever each of them answers; a
\* probe that raises is reported as unavailable and does not end the check.
C14_AllProbesRunInOrder ==
  /\ Len(ProbesInvoked) <= Len(ProbeNames)
  /\ \A k \in 1..Len(ProbesInvoked) : ProbesInvoked[k] = <<"probe", ProbeNames[k]>>
  /\ \A k \in 1..Len(arb.outcomes) :
       arb.outcomes[k] = "raises" =>
         /\ arb.error \in ForeignErrors \cup {None}
         /\ k <= Len(arb.status) /\ arb.status[k] = FALSE
  /\ arb.pc \in {"health_complete", "capability_start", "legacy_complete", "legacy_returned"} =>
       /\ Len(arb.outcomes) = Len(ProbeNames)
       /\ \A k \in 1..Len(ProbeNames) : arb.status[k] = (arb.outcomes[k] = "true")

(***************************************************************************)
(* The rows of the drive table.  One id carries a leading blank: the store *)
(* strips the ids it validates, the warehouse compares them as they are.   *)
(***************************************************************************)
MaxRows == 2

IdA == <<"A">>

IdPaddedA == <<" ", "A">>

IdB == <<"B">>

\* The phases of a run that stopped in its third phase.
StuckPhases ==
  (Phases[1] :> <<TRUE, Some("COMPLETED")>>) @@ (Phases[2] :> <<TRUE, Some("COMPLETED")>>) @@
  (Phases[3] :> <<TRUE, Some("IN_PROCESS")>>) @@ (Phases[4] :> <<TRUE, Some("PENDING")>>) @@
  (Phases[5] :> <<FALSE, None>>)

\* The in-process row of a pipeline id; each id has its own query window, and
\* the run of IdB started one second after the others.
InProcessRow(id) ==
  LET window == IF id = Some(IdA) THEN 1 ELSE IF id = Some(IdPaddedA) THEN 2 ELSE 3
      start == IF id = Some(IdB) THEN 2 ELSE 1
  IN  Row(TopLevel(id, window, "IN_PROCESS", Some(start), None, Some(0), Some(Phases[2])),
          StuckPhases)

TableIds == {Some(IdA), Some(IdPaddedA), Some(IdB)}

TableRows == {InProcessRow(id) : id \in TableIds}

\* A row as it is created: pending, nothing started.
PendingRow(id) ==
  LET window == IF id = Some(IdA) THEN 1 ELSE IF id = Some(IdPaddedA) THEN 2 ELSE 3
  IN  Row(TopLevel(id, window, "PENDING", None, None, Some(0), None),
          [P \in PhaseSet |-> <<TRUE, Some("PENDING")>>])

NewRows == {PendingRow(id) : id \in TableIds}

\* The tables a behaviour starts from: PIPELINE_ID is unique in each.
InitialTables == {SetToBag(S) : S \in {T \in SUBSET TableRows : Cardinality(T) <= MaxRows}}

\* The PIPELINE_ID values a caller may pass: missing, empty, blank, and ids.
ApiIds == {None, Some(<<>>), Some(<<" ">>)} \cup TableIds

(***************************************************************************)
(* One drive-store call, statement by statement.                           *)
(***************************************************************************)
\* The row counts the store accepts of its DELETE and of its INSERT.
RowCountAccepted_AtLeastOne(rows_affected) == rows_affected >= 1

RowCountAccepted(rows_affected) == rows_affected = 1

\* What get_record_before_delete does with the number of rows it fetched.
BeforeImageVerdict_FirstOfMany(records_found) ==
  IF records_found = 0 THEN "DELETE_RECORD_NOT_FOUND" ELSE "RECORD_BEFORE_DELETE"

BeforeImageVerdict(records_found) ==
  IF records_found = 0 THEN "DELETE_RECORD_NOT_FOUND"
  ELSE IF records_found > 1 THEN "DELETE_MULTIPLE_RECORDS_FOUND"
  ELSE "RECORD_BEFORE_DELETE"

\* A log event of the call.
Log(c, event) == [c EXCEPT !.events = Append(@, event)]

\* An exception that leaves a single statement's call without the close.
Raise_SkipClose(c, where) ==
  [c EXCEPT !.failed_at = Some(where), !.error = Some(where),
            !.pc = IF c.op = "replace" THEN "rollback" ELSE "done"]

\* A log event of the call that carries the drive config in a field of
\* its other_details.
LogConfig(c, event, carried) ==
  [Log(c, event) EXCEPT !.payloads = Append(@, <<event, carried>>)]

\* safe_config of get_snowflake_connection: the drive config with its
\* password replaced.
SafeConfig(sf_config) ==
  [k \in DOMAIN sf_config \cup {"password"} |->
     IF k = "password" THEN "[REDACTED]" ELSE sf_config[k]]

\* sf_config_keys of find_in_process_records: every value of the drive
\* config behind 'value: ', the password replaced.
SfConfigKeys(sf_config) ==
  [k \in DOMAIN sf_config |-> IF k = "password" THEN "******" ELSE <<"value: ", sf_config[k]>>]

\* The log of the except branch of get_snowflake_connection.
ConnectionFailed(c) ==
  LogConfig(c, "SF_CONNECTION_FAILED", SafeConfig(c.config[1].sf_drive_config))

\* The log of the except branch of a fetch, which follows the connection's
\* scope.
FetchFailed(c) ==
  IF c.op = "find_in_process"
  THEN LogConfig(c, "FIND_IN_PROCESS_RECORDS_FAILED", SfConfigKeys(c.config[1].sf_drive_config))
  ELSE IF c.op = "get_valid_pending" THEN Log(c, "FETCH_VALID_PENDING_FAILED")
  ELSE c

\* The call after an exception at a statement: a transaction goes to its
\* rollback handler, a single statement leaves the connection's scope.
Raise(c, where) ==
  [c EXCEPT !.failed_at = Some(where), !.error = Some(where),
            !.pc = IF c.op = "replace" THEN "rollback" ELSE "close"]

\* delete_old_in_process_record_and_insert_new_pending_record up to its
\* connection: both validations run before the try that opens it.
ReplaceCall(caller, original_record, updated_record, config) ==
  LET c == [NoCall EXCEPT !.op = "replace", !.caller = caller, !.config = Some(config),
                          !.original = Some(original_record),
                          !.updated = Some(updated_record)]
      pipeline_id == ValidateRecordPair(original_record, updated_record)
  IN  IF ~ValidateConfigStructure(config)
      THEN [c EXCEPT !.pc = "done", !.failed_at = Some("config"), !.error = Some("ValueError")]
      ELSE IF pipeline_id = None
      THEN [c EXCEPT !.pc = "done", !.failed_at = Some("validation"),
                     !.error = Some("ValueError")]
      ELSE [c EXCEPT !.pc = "connect", !.pipeline_id = pipeline_id]

\* delete_single_record_from_snowflake up to its connection.
DeleteOneCall(pipeline_id, config) ==
  LET c == [NoCall EXCEPT !.op = "delete_one", !.caller = "api", !.config = Some(config)]
      validated_pipeline_id == ValidatePipelineId(pipeline_id)
  IN  IF ~ValidateConfigStructure(config)
      THEN [c EXCEPT !.pc = "done", !.failed_at = Some("config"), !.error = Some("ValueError")]
      ELSE IF validated_pipeline_id = None
      THEN [c EXCEPT !.pc = "done", !.failed_at = Some("validation"),
                     !.error = Some("ValueError")]
      ELSE [c EXCEPT !.pc = "connect", !.pipeline_id = validated_pipeline_id]

\* insert_single_record_to_snowflake up to its connection: the id is
\* validated and the record is inserted as it was passed.
InsertOneCall(record_data, config) ==
  LET c == [NoCall EXCEPT !.op = "insert_one", !.caller = "api", !.config = Some(config),
                          !.updated = Some(record_data)]
      validated_pipeline_id == ValidatePipelineId(record_data.PIPELINE_ID)
  IN  IF ~ValidateConfigStructure(config)
      THEN [c EXCEPT !.pc = "done", !.failed_at = Some("config"), !.error = Some("ValueError")]
      ELSE IF validated_pipeline_id = None
      THEN [c EXCEPT !.pc = "done", !.failed_at = Some("validation"),
                     !.error = Some("ValueError")]
      ELSE [c EXCEPT !.pc = "connect", !.pipeline_id = validated_pipeline_id]

\* get_snowflake_connection up to its yield: a failed connect is logged and
\* raised, and there is nothing to close.
Connect(ok) ==
  /\ call.pc = "connect"
  /\ IF ok
     THEN /\ session' = [NoSession EXCEPT !.conn = "open", !.held = session.held + 1]
          /\ call' = [Log(call, "CONNECT") EXCEPT
                        !.opened = @ + 1,
                        !.pc = CASE call.op = "replace" -> "begin"
                                 [] call.op = "delete_one" -> "select"
                                 [] call.op = "insert_one" -> "insert"
                                 [] call.op = "find_in_process" -> "fetch_in_process"
                                 [] call.op = "get_valid_pending" -> "fetch_pending"]
     ELSE /\ session' = session
          /\ call' = [FetchFailed(ConnectionFailed(Log(call, "CONNECT"))) EXCEPT
                        !.failed_at = Some("connect"), !.error = Some("connect"),
                        !.pc = "done"]
  /\ UNCHANGED <<table, shadow, resetVars, arb, tickVars>>

\* execute_transaction, conn.autocommit = False: the statements that follow
\* belong to one transaction.
BeginTransaction ==
  /\ call.pc = "begin"
  /\ session' = [session EXCEPT !.autocommit = FALSE]
  /\ call' = [call EXCEPT !.pc = "select"]
  /\ UNCHANGED <<table, shadow, resetVars, arb, tickVars>>

\* get_record_before_delete: the SELECT by id, the verdict on the number of
\* rows, and the log of the row about to be deleted.  The SELECT or the
\* logger may raise.
SelectBeforeImage(outcome) ==
  /\ call.pc = "select"
  /\ LET records == Matching(View(table, session), call.pipeline_id[1])
         records_found == BagCardinality(records)
         verdict == BeforeImageVerdict(records_found)
         fetched == [Log(call, "SELECT") EXCEPT !.records_found = Some(records_found)]
     IN  call' =
           IF outcome = "raises"
           THEN Raise(Log(Log(call, "SELECT"), "FETCH_BEFORE_DELETE_FAILED"), "select")
           ELSE IF verdict # "RECORD_BEFORE_DELETE"
           THEN Raise(Log(Log(fetched, verdict), "FETCH_BEFORE_DELETE_FAILED"), verdict)
           ELSE IF outcome = "log_raises"
           THEN Raise(Log(fetched, "FETCH_BEFORE_DELETE_FAILED"), "select_log")
           ELSE [Log(fetched, "RECORD_BEFORE_DELETE") EXCEPT
                   !.before_image = Some(CHOOSE r \in DOMAIN records : TRUE),
                   !.pc = "delete"]
  /\ UNCHANGED <<table, session, shadow, resetVars, arb, tickVars>>

\* execute_delete_query after the before-image: the DELETE by id and the
\* check of its row count.  With autocommit on the DELETE is committed as it
\* executes; in a transaction it stays with the session.  A DELETE that
\* raises deletes nothing.
ExecuteDelete(ok) ==
  /\ call.pc = "delete"
  /\ LET pipeline_id == call.pipeline_id[1]
         hit == Matching(View(table, session), pipeline_id)
         delete_rows_affected == BagCardinality(hit)
         counted == [Log(call, "DELETE") EXCEPT
                       !.delete_rows_affected = Some(delete_rows_affected)]
     IN  IF ~ok
         THEN /\ call' = Raise(Log(Log(call, "DELETE"), "DELETE_QUERY_FAILED"), "delete")
              /\ UNCHANGED <<table, session>>
         ELSE /\ IF session.autocommit
                 THEN /\ table' = table (-) hit
                      /\ session' = session
                 ELSE /\ table' = table
                      /\ session' =
                           [session EXCEPT
                              !.deleted = @ (+) Matching(table (-) @, pipeline_id),
                              !.inserted = @ (-) Matching(@, pipeline_id)]
              /\ call' =
                   IF RowCountAccepted(delete_rows_affected)
                   THEN [Log(counted, "DELETE_RECORD_SUCCESS") EXCEPT
                           !.pc = IF call.op = "replace" THEN "insert" ELSE "close"]
                   ELSE Raise(Log(Log(counted, "DELETE_UNEXPECTED_ROW_COUNT"),
                                  "DELETE_QUERY_FAILED"), "delete_count")
  /\ UNCHANGED <<shadow, resetVars, arb, tickVars>>

\* execute_insert_query: the INSERT of the record as it was passed and the
\* check of the row count the driver reports.  An INSERT that raises
\* inserts nothing.
ExecuteInsert(ok, insert_rows_affected) ==
  /\ call.pc = "insert"
  /\ LET added == IF insert_rows_affected = 1 THEN SetToBag({call.updated[1]}) ELSE EmptyBag
         counted == [Log(call, "INSERT") EXCEPT
                       !.insert_rows_affected = Some(insert_rows_affected)]
     IN  IF ~ok
         THEN /\ call' = Raise(Log(Log(call, "INSERT"), "INSERT_QUERY_FAILED"), "insert")
              /\ UNCHANGED <<table, session>>
         ELSE /\ IF session.autocommit
                 THEN /\ table' = table (+) added
                      /\ session' = session
                 ELSE /\ table' = table
                      /\ session' = [session EXCEPT !.inserted = @ (+) added]
              /\ call' =
                   IF RowCountAccepted(insert_rows_affected)
                   THEN [Log(counted, "INSERT_RECORD_SUCCESS") EXCEPT
                           !.pc = IF call.op = "replace" THEN "commit" ELSE "close"]
                   ELSE Raise(Log(Log(counted, "INSERT_UNEXPECTED_ROW_COUNT"),
                                  "INSERT_QUERY_FAILED"), "insert_count")
  /\ UNCHANGED <<shadow, resetVars, arb, tickVars>>

\* execute_transaction, conn.commit(), autocommit back on, and the success
\* log.  A commit that raises commits nothing; a logger that raises does so
\* after the commit.
Commit(outcome) ==
  /\ call.pc = "commit"
  /\ IF outcome = "raises"
     THEN /\ call' = Raise(Log(call, "COMMIT"), "commit")
          /\ UNCHANGED <<table, session>>
     ELSE /\ table' = View(table, session)
          /\ session' = [session EXCEPT !.deleted = EmptyBag, !.inserted = EmptyBag,
                                        !.autocommit = TRUE]
          /\ call' =
               IF outcome = "log_raises"
               THEN Raise([Log(call, "COMMIT") EXCEPT !.committed = TRUE], "commit_log")
               ELSE [Log(Log(call, "COMMIT"), "DELETE_INSERT_TRANSACTION_SUCCESS") EXCEPT
                       !.committed = TRUE, !.pc = "close"]
  /\ UNCHANGED <<shadow, resetVars, arb, tickVars>>

\* execute_transaction, the except branch: rollback and autocommit back on.
\* A rollback that raises is logged with both query ids; a query id is only
\* bound once its statement has returned, and reading an unbound one raises
\* in place of the log.  Then the first exception is raised again.
Rollback(ok) ==
  /\ call.pc = "rollback"
  /\ IF ok
     THEN /\ session' = [session EXCEPT !.deleted = EmptyBag, !.inserted = EmptyBag,
                                        !.autocommit = TRUE]
          /\ call' = [Log(call, "ROLLBACK") EXCEPT !.pc = "close"]
     ELSE /\ session' = session
          /\ call' =
               IF call.failed_at \in {Some("commit"), Some("commit_log")}
               THEN [Log(Log(call, "ROLLBACK"), "ROLLBACK_FAILED") EXCEPT !.pc = "close"]
               ELSE [Log(call, "ROLLBACK") EXCEPT !.error = Some("UnboundLocalError"),
                                                  !.pc = "close"]
  /\ UNCHANGED <<table, shadow, resetVars, arb, tickVars>>

\* get_snowflake_connection after its yield: an exception of the body is
\* logged and raised again, and the connection is closed on every path; a
\* close that raises is logged and goes no further.  The warehouse drops
\* what a session left uncommitted.  The caller of a transaction logs the
\* failure it raises.
Close(ok) ==
  /\ call.pc = "close"
  /\ session' = [NoSession EXCEPT !.held = session.held - 1]
  /\ LET failed == IF call.error = None THEN call ELSE ConnectionFailed(call)
         closed == IF ok THEN Log(failed, "CLOSE")
                   ELSE Log(Log(failed, "CLOSE"), "CLOSE_FAILED")
     IN  call' = [(IF call.error = None THEN closed
                   ELSE IF call.op = "replace" THEN Log(closed, "DELETE_INSERT_RECORD_FAILED")
                   ELSE FetchFailed(closed))
                  EXCEPT !.closed = @ + 1, !.pc = "done"]
  /\ UNCHANGED <<table, shadow, resetVars, arb, tickVars>>

\* The statements of a call in progress.
CallStep ==
  \/ \E ok \in BOOLEAN : Connect(ok)
  \/ BeginTransaction
  \/ \E outcome \in {"ok", "raises", "log_raises"} : SelectBeforeImage(outcome)
  \/ \E ok \in BOOLEAN : ExecuteDelete(ok)
  \/ \E ok \in BOOLEAN, insert_rows_affected \in {0, 1} : ExecuteInsert(ok, insert_rows_affected)
  \/ \E outcome \in {"ok", "raises", "log_raises"} : Commit(outcome)
  \/ \E ok \in BOOLEAN : Rollback(ok)
  \/ \E ok \in BOOLEAN : Close(ok)

(***************************************************************************)
(* The two fetches of the drive store: their queries.                      *)
(***************************************************************************)
\* The WHERE clause without its two conditions on the gating flags.
InProcessFilter_IgnoreFlags(r, config) ==
  /\ r.PIPELINE_STATUS = Some("IN_PROCESS")
  /\ r.PIPELINE_NAME = Some(config.PIPELINE_NAME)
  /\ r.SOURCE_NAME = Some(config.SOURCE_NAME)
  /\ r.SOURCE_CATEGORY = Some(config.SOURCE_CATEGORY)
  /\ r.SOURCE_SUB_TYPE = Some(config.SOURCE_SUB_TYPE)

\* The WHERE clause of find_in_process_records.
InProcessFilter(r, config) ==
  /\ r.PIPELINE_STATUS = Some("IN_PROCESS")
  /\ r.CONTINUITY_CHECK_PERFORMED = Some("YES")
  /\ r.CAN_FETCH_HISTORICAL_DATA = Some("YES")
  /\ r.PIPELINE_NAME = Some(config.PIPELINE_NAME)
  /\ r.SOURCE_NAME = Some(config.SOURCE_NAME)
  /\ r.SOURCE_CATEGORY = Some(config.SOURCE_CATEGORY)
  /\ r.SOURCE_SUB_TYPE = Some(config.SOURCE_SUB_TYPE)

\* The result sets of find_in_process_records (the reclaimer calls it by the
\* name find_in_progress_records) over the committed rows: the
\* matching rows ORDER BY QUERY_WINDOW_START_TIME ASC, rows of equal window
\* in any order.
FindInProcessRecords(rows, config) ==
  LET matching == [r \in {x \in DOMAIN rows : InProcessFilter(x, config)} |-> rows[r]]
      n == BagCardinality(matching)
  IN  {results \in [1..n -> DOMAIN matching] :
         /\ \A r \in DOMAIN matching :
              Cardinality({k \in 1..n : results[k] = r}) = matching[r]
         /\ \A j, k \in 1..n :
              j < k => results[j].QUERY_WINDOW_START_TIME[1]
                         <= results[k].QUERY_WINDOW_START_TIME[1]}

(***************************************************************************)
(* The selector of pending rows: get_valid_pending_records over tables of  *)
(* pending and in-process rows.                                            *)
(***************************************************************************)
\* The tables of the selector: PIPELINE_ID is unique in each.
SelectorTables ==
  {SetToBag(S) : S \in {T \in SUBSET (NewRows \cup TableRows) :
                          /\ Cardinality(T) <= MaxRows
                          /\ \A r1, r2 \in T : r1.PIPELINE_ID = r2.PIPELINE_ID => r1 = r2}}

\* The configs of the selector: offsets of zero and one second, a
\* granularity with no unit the parser knows, limits of one and two rows,
\* and a config without the selector's keys.
SelectorConfigs ==
  {FullConfig} \cup
  {[k \in DOMAIN FullConfig \cup {"x_time_back", "granularity", "max_pending_records"} |->
      IF k = "x_time_back" THEN x_time_back
      ELSE IF k = "granularity" THEN granularity
      ELSE IF k = "max_pending_records" THEN max_pending_records
      ELSE FullConfig[k]] :
     x_time_back \in {<<"0", "s">>, <<"1", "s">>},
     granularity \in {<<"1", "s">>, <<"1", "w">>},
     max_pending_records \in {1, 2}}

\* The clock readings of the selector.
SelectorNowValues == {3, 4}

\* MAX_ACCEPTED_TIME without the granularity.
MaxAcceptedTime_IgnoreGranularity(config, now) ==
  LET x_time_back_seconds == ParseDurationStringToSeconds(config.x_time_back)
      granularity_seconds == ParseDurationStringToSeconds(config.granularity)
  IN  IF x_time_back_seconds = None \/ granularity_seconds = None THEN None
      ELSE Some(now - x_time_back_seconds[1])

\* MAX_ACCEPTED_TIME = now - (x_time_back + granularity); None where a
\* duration does not parse.
MaxAcceptedTime(config, now) ==
  LET x_time_back_seconds == ParseDurationStringToSeconds(config.x_time_back)
      granularity_seconds == ParseDurationStringToSeconds(config.granularity)
  IN  IF x_time_back_seconds = None \/ granularity_seconds = None THEN None
      ELSE Some(now - (x_time_back_seconds[1] + granularity_seconds[1]))

\* The WHERE clause of get_valid_pending_records.
ValidPendingFilter(r, config, max_accepted_time) ==
  /\ r.PIPELINE_STATUS = Some("PENDING")
  /\ r.CONTINUITY_CHECK_PERFORMED = Some("YES")
  /\ r.CAN_FETCH_HISTORICAL_DATA = Some("YES")
  /\ r.PIPELINE_NAME = Some(config.PIPELINE_NAME)
  /\ r.SOURCE_NAME = Some(config.SOURCE_NAME)
  /\ r.SOURCE_CATEGORY = Some(config.SOURCE_CATEGORY)
  /\ r.SOURCE_SUB_TYPE = Some(config.SOURCE_SUB_TYPE)
  /\ r.QUERY_WINDOW_START_TIME[1] <= max_accepted_time

\* A query that cuts at its limit before it orders: any max_pending_records
\* of the matching rows, in ascending order.
GetValidPendingResults_LimitThenOrder(rows, config, max_accepted_time) ==
  LET matching == [r \in {x \in DOMAIN rows : ValidPendingFilter(x, config, max_accepted_time)}
                     |-> rows[r]]
      n == BagCardinality(matching)
      limit == IF n <= config.max_pending_records THEN n ELSE config.max_pending_records
  IN  {results \in [1..limit -> DOMAIN matching] :
         /\ \A r \in DOMAIN matching :
              Cardinality({k \in 1..limit : results[k] = r}) <= matching[r]
         /\ \A j, k \in 1..limit :
              j < k => results[j].QUERY_WINDOW_START_TIME[1]
                         <= results[k].QUERY_WINDOW_START_TIME[1]}

\* The result sets of the query: the matching rows ORDER BY
\* QUERY_WINDOW_START_TIME ASC, rows of equal window in any order, cut at
\* LIMIT max_pending_records.
GetValidPendingResults(rows, config, max_accepted_time) ==
  LET matching == [r \in {x \in DOMAIN rows : ValidPendingFilter(x, config, max_accepted_time)}
                     |-> rows[r]]
      n == BagCardinality(matching)
      limit == IF n <= config.max_pending_records THEN n ELSE config.max_pending_records
      ordered == {results \in [1..n -> DOMAIN matching] :
                    /\ \A r \in DOMAIN matching :
                         Cardinality({k \in 1..n : results[k] = r}) = matching[r]
                    /\ \A j, k \in 1..n :
                         j < k => results[j].QUERY_WINDOW_START_TIME[1]
                                    <= results[k].QUERY_WINDOW_START_TIME[1]}
  IN  {SubSeq(results, 1, limit) : results \in ordered}

InitSelector ==
  /\ table \in SelectorTables
  /\ shadow = table
  /\ session = NoSession
  /\ call = NoCall
  /\ ResetIdle /\ ArbIdle /\ TickIdle

\* get_valid_pending_records up to its connection: the offsets are read
\* and parsed, then the limit is read; a missing key or a duration that
\* does not parse raises before any connection.
GetValidPendingCall(config, now) ==
  /\ call.pc = "idle"
  /\ LET c == [NoCall EXCEPT !.op = "get_valid_pending", !.caller = "api",
                             !.config = Some(config), !.now = Some(now)]
     IN  call' =
           IF ~({"x_time_back", "granularity"} \subseteq DOMAIN config)
           THEN [c EXCEPT !.pc = "done", !.failed_at = Some("config"),
                          !.error = Some("KeyError")]
           ELSE IF MaxAcceptedTime(config, now) = None
           THEN [c EXCEPT !.pc = "done", !.failed_at = Some("config"),
                          !.error = Some("ValueError")]
           ELSE IF "max_pending_records" \notin DOMAIN config
           THEN [c EXCEPT !.pc = "done", !.failed_at = Some("config"),
                          !.error = Some("KeyError")]
           ELSE [c EXCEPT !.pc = "connect",
                          !.max_accepted_time = MaxAcceptedTime(config, now)]
  /\ shadow' = table
  /\ UNCHANGED <<table, session, resetVars, arb, tickVars>>

\* The query of get_valid_pending_records and its fetchall, inside the
\* connection's scope: the rows are logged and returned, or the exception
\* leaves the scope.
FetchValidPending(ok) ==
  /\ call.pc = "fetch_pending"
  /\ IF ok
     THEN \E results \in GetValidPendingResults(table, call.config[1],
                                                call.max_accepted_time[1]) :
            call' = [Log(call, "FETCH_VALID_PENDING_SUCCESS") EXCEPT
                       !.results = Some(results), !.pc = "close"]
     ELSE call' = Raise(call, "fetch_pending")
  /\ UNCHANGED <<table, session, shadow, resetVars, arb, tickVars>>

\* find_in_process_records up to its connection: the config is validated.
FindInProcessCall(caller, config) ==
  LET c == [NoCall EXCEPT !.op = "find_in_process", !.caller = caller,
                          !.config = Some(config)]
  IN  IF ~ValidateConfigStructure(config)
      THEN [c EXCEPT !.pc = "done", !.failed_at = Some("config"), !.error = Some("ValueError")]
      ELSE [c EXCEPT !.pc = "connect"]

\* The query of find_in_process_records and its fetchall, inside the
\* connection's scope.
FetchInProcess(ok) ==
  /\ call.pc = "fetch_in_process"
  /\ IF ok
     THEN \E results \in FindInProcessRecords(table, call.config[1]) :
            call' = [Log(call, "QUERY_EXECUTION_SUCCESS") EXCEPT
                       !.results = Some(results), !.pc = "close"]
     ELSE call' = Raise(call, "fetch_in_process")
  /\ UNCHANGED <<table, session, shadow, resetVars, arb, tickVars>>

(***************************************************************************)
(* The drive store called directly, one call at a time, while another      *)
(* writer creates rows in the same table.                                  *)
(***************************************************************************)
\* The records a caller may pass as the original and as the updated record.
ApiOriginals == {InProcessRow(id) : id \in ApiIds}

ApiUpdated == {ConvertRecord(r) : r \in ApiOriginals}

InitStore ==
  /\ table \in InitialTables
  /\ shadow = table
  /\ session = NoSession
  /\ call = NoCall
  /\ ResetIdle /\ ArbIdle /\ TickIdle

ApiReplace(original_record, updated_record, config) ==
  /\ call.pc = "idle"
  /\ call' = ReplaceCall("api", original_record, updated_record, config)
  /\ shadow' = table
  /\ UNCHANGED <<table, session, resetVars, arb, tickVars>>

ApiDeleteOne(pipeline_id, config) ==
  /\ call.pc = "idle"
  /\ call' = DeleteOneCall(pipeline_id, config)
  /\ shadow' = table
  /\ UNCHANGED <<table, session, resetVars, arb, tickVars>>

ApiInsertOne(record_data, config) ==
  /\ call.pc = "idle"
  /\ BagCardinality(table) < MaxRows
  /\ call' = InsertOneCall(record_data, config)
  /\ shadow' = table
  /\ UNCHANGED <<table, session, resetVars, arb, tickVars>>

ApiFindInProcess(config) ==
  /\ call.pc = "idle"
  /\ call' = FindInProcessCall("api", config)
  /\ shadow' = table
  /\ UNCHANGED <<table, session, resetVars, arb, tickVars>>

\* The call returns or raises to its caller.
ApiReturn ==
  /\ call.pc = "done"
  /\ call.caller = "api"
  /\ call' = NoCall
  /\ shadow' = table
  /\ UNCHANGED <<table, session, resetVars, arb, tickVars>>

\* Another writer creates a row; rows are created pending.
CreateRow(row) ==
  /\ BagCardinality(table) < MaxRows
  /\ table' = table (+) SetToBag({row})
  /\ shadow' = shadow (+) SetToBag({row})
  /\ UNCHANGED <<session, call, tick, initial, resetVars, arb>>

NextStore ==
  \/ \E o \in ApiOriginals, u \in ApiUpdated, config \in Configs : ApiReplace(o, u, config)
  \/ \E id \in ApiIds, config \in Configs : ApiDeleteOne(id, config)
  \/ \E r \in ApiOriginals \cup ApiUpdated, config \in Configs : ApiInsertOne(r, config)
  \/ \E config \in Configs : ApiFindInProcess(config)
  \/ \E config \in SelectorConfigs, now \in SelectorNowValues : GetValidPendingCall(config, now)
  \/ \E ok \in BOOLEAN : FetchInProcess(ok)
  \/ \E ok \in BOOLEAN : FetchValidPending(ok)
  \/ CallStep
  \/ ApiReturn
  \/ \E row \in NewRows : CreateRow(row)

SpecStore == InitStore /\ [][NextStore]_vars

(***************************************************************************)
(* The reclaimer tick: fetch the in-process rows, classify them, alert,    *)
(* convert the stale ones and replace each of them in the table.  Workers  *)
(* move rows between the steps of the tick, outside the calls of the       *)
(* store.                                                                  *)
(***************************************************************************)
\* One pass of the loop of identify_stale_records: "stale", "fresh", or
\* "skipped" where the try of the record raised.
Classify(r, config, current_time) ==
  LET own == r.PIPELINE_EXP_DURATION
      expected_duration_str ==
        IF own # None /\ own # Some(<<>>) THEN own
        ELSE IF "PIPELINE_EXP_DURATION" \in DOMAIN config
        THEN Some(config.PIPELINE_EXP_DURATION)
        ELSE None
      expected_duration_seconds ==
        IF expected_duration_str = None THEN None
        ELSE ParseDurationToSeconds(expected_duration_str[1])
  IN  IF expected_duration_seconds = None \/ r.PIPELINE_START_TIME = None THEN "skipped"
      ELSE IF current_time - r.PIPELINE_START_TIME[1]
                > config.stale_threshold_factor * expected_duration_seconds[1]
      THEN "stale"
      ELSE "fresh"

\* An evaluator whose loop ends at the first record that raises.
IdentifyStaleRecords_StopAtFailure(list_of_python_dicts, config, current_time) ==
  LET failures == {k \in 1..Len(list_of_python_dicts) :
                     Classify(list_of_python_dicts[k], config, current_time) = "skipped"}
      last == IF failures = {} THEN Len(list_of_python_dicts)
              ELSE (CHOOSE k \in failures : \A j \in failures : k <= j) - 1
  IN  SelectSeq(SubSeq(list_of_python_dicts, 1, last),
                LAMBDA r : Classify(r, config, current_time) = "stale")

\* identify_stale_records: the stale records in the order they were fetched.
IdentifyStaleRecords(list_of_python_dicts, config, current_time) ==
  SelectSeq(list_of_python_dicts, LAMBDA r : Classify(r, config, current_time) = "stale")

\* identify_stale_records, its except branch: the records that raised, each
\* logged with a warning, in the order they were fetched.
IdentifyStaleWarnings(list_of_python_dicts, config, current_time) ==
  SelectSeq(list_of_python_dicts, LAMBDA r : Classify(r, config, current_time) = "skipped")

\* The clock readings of a tick.
NowValues == {4, 5}

\* The configs of a tick.
TickConfigs == {FullConfig, Without(FullConfig, "stale_threshold_factor")}

InitReclaimer ==
  /\ table \in InitialTables
  /\ initial = table
  /\ shadow = table
  /\ session = NoSession
  /\ call = NoCall
  /\ tick = NoTick
  /\ ResetIdle /\ ArbIdle

\* detect_and_handle_stale_processes is invoked.
TickStart(config, now) ==
  /\ tick.pc \in {"idle", "done"}
  /\ tick' = [NoTick EXCEPT !.pc = "fetch", !.config = config, !.now = now]
  /\ UNCHANGED <<initial, storeVars, resetVars, arb>>

\* The fetch of the in-process rows is called.
TickFetchCall ==
  /\ tick.pc = "fetch"
  /\ call.pc = "idle"
  /\ call' = FindInProcessCall("tick", tick.config)
  /\ shadow' = table
  /\ tick' = [tick EXCEPT !.pc = "fetching"]
  /\ UNCHANGED <<initial, table, session, resetVars, arb>>

\* The fetch returned or raised; a fetch that raises ends the tick.  An
\* empty result ends it with all counts zero.
TickFetchReturn ==
  /\ tick.pc = "fetching"
  /\ call.pc = "done"
  /\ call.caller = "tick"
  /\ tick' = IF call.error # None
             THEN [tick EXCEPT !.pc = "done", !.error = Some("fetch")]
             ELSE IF call.results[1] = <<>>
             THEN [tick EXCEPT !.pc = "done",
                               !.result = Some([total_found |-> 0, stale_found |-> 0,
                                                converted_count |-> 0])]
             ELSE [tick EXCEPT !.pc = "classify", !.in_progress_records = call.results[1]]
  /\ call' = NoCall
  /\ shadow' = table
  /\ UNCHANGED <<initial, table, session, resetVars, arb>>

\* The tick that alerts and converts whatever the evaluator returned.
TickClassify_NoEarlyExit ==
  /\ tick.pc = "classify"
  /\ tick' =
       IF ~({"timezone", "stale_threshold_factor"} \subseteq DOMAIN tick.config)
       THEN [tick EXCEPT !.pc = "done", !.error = Some("KeyError")]
       ELSE LET stale_records ==
                  IdentifyStaleRecords(tick.in_progress_records, tick.config, tick.now)
            IN  [tick EXCEPT !.pc = "alert", !.stale_records = stale_records,
                             !.original_stale_records = stale_records]
  /\ UNCHANGED <<initial, storeVars, resetVars, arb>>

\* identify_stale_records and the deep copy of what it returned.  A config
\* without timezone or stale_threshold_factor raises KeyError; with no stale
\* record the tick returns.
TickClassify ==
  /\ tick.pc = "classify"
  /\ tick' =
       IF ~({"timezone", "stale_threshold_factor"} \subseteq DOMAIN tick.config)
       THEN [tick EXCEPT !.pc = "done", !.error = Some("KeyError")]
       ELSE LET stale_records ==
                  IdentifyStaleRecords(tick.in_progress_records, tick.config, tick.now)
                warnings ==
                  IdentifyStaleWarnings(tick.in_progress_records, tick.config, tick.now)
            IN  IF stale_records = <<>>
                THEN [tick EXCEPT !.pc = "done", !.warnings = warnings,
                        !.result = Some([total_found |-> Len(tick.in_progress_records),
                                         stale_found |-> 0, converted_count |-> 0])]
                ELSE [tick EXCEPT !.pc = "alert", !.stale_records = stale_records,
                                  !.original_stale_records = stale_records,
                                  !.warnings = warnings]
  /\ UNCHANGED <<initial, storeVars, resetVars, arb>>

\* send_stale_process_alert, called outside any try: an alert that raises
\* ends the tick.
TickAlert(ok) ==
  /\ tick.pc = "alert"
  /\ tick' = IF ok THEN [tick EXCEPT !.pc = "convert", !.alerts = Append(@, ok)]
             ELSE [tick EXCEPT !.pc = "done", !.error = Some("alert"),
                               !.alerts = Append(@, ok)]
  /\ UNCHANGED <<initial, storeVars, resetVars, arb>>

\* A conversion over records that the originals share: what is written to a
\* stale record is written to its original.
TickConvert_SharedRecords ==
  /\ tick.pc = "convert"
  /\ tick' = [tick EXCEPT
                !.stale_records = [k \in 1..Len(@) |-> ConvertRecord(@[k])],
                !.original_stale_records = [k \in 1..Len(@) |-> ConvertRecord(@[k])],
                !.converted_count = Len(tick.stale_records),
                !.i = 1,
                !.pc = "replace"]
  /\ UNCHANGED <<initial, storeVars, resetVars, arb>>

\* convert_to_pending, its loop: every stale record is converted in place
\* and counted.
TickConvert ==
  /\ tick.pc = "convert"
  /\ tick' = [tick EXCEPT
                !.stale_records = [k \in 1..Len(@) |-> ConvertRecord(@[k])],
                !.converted_count = Len(tick.stale_records),
                !.i = 1,
                !.pc = "replace"]
  /\ UNCHANGED <<initial, storeVars, resetVars, arb>>

\* delete_old_in_process_records_and_insert_new_pending_record, the body of
\* its loop: the replacement of the i-th pair is called.
TickReplaceCall ==
  /\ tick.pc = "replace"
  /\ tick.i <= Len(tick.stale_records)
  /\ call.pc = "idle"
  /\ call' = ReplaceCall("tick", tick.original_stale_records[tick.i],
                         tick.stale_records[tick.i], tick.config)
  /\ shadow' = table
  /\ tick' = [tick EXCEPT !.pc = "replacing",
                          !.submitted = Append(@, tick.original_stale_records[tick.i])]
  /\ UNCHANGED <<initial, table, session, resetVars, arb>>

\* The loop that ends at the first replacement that raises.
TickReplaceReturn_StopAtFailure ==
  /\ tick.pc = "replacing"
  /\ call.pc = "done"
  /\ call.caller = "tick"
  /\ tick' = [tick EXCEPT
                !.successfully_processed = IF call.error = None THEN @ + 1 ELSE @,
                !.failed_operations = IF call.error = None THEN @ ELSE @ + 1,
                !.outcomes = Append(@, call.committed),
                !.i = IF call.error = None THEN @ + 1 ELSE Len(tick.stale_records) + 1,
                !.pc = "replace"]
  /\ call' = NoCall
  /\ shadow' = table
  /\ UNCHANGED <<initial, table, session, resetVars, arb>>

\* The replacement returned or raised: it is counted, and the loop goes on
\* to the next pair either way.
TickReplaceReturn ==
  /\ tick.pc = "replacing"
  /\ call.pc = "done"
  /\ call.caller = "tick"
  /\ tick' = [tick EXCEPT
                !.successfully_processed = IF call.error = None THEN @ + 1 ELSE @,
                !.failed_operations = IF call.error = None THEN @ ELSE @ + 1,
                !.outcomes = Append(@, call.committed),
                !.i = @ + 1,
                !.pc = "replace"]
  /\ call' = NoCall
  /\ shadow' = table
  /\ UNCHANGED <<initial, table, session, resetVars, arb>>

\* The loop is over: convert_to_pending returns the count of its own loop
\* and the tick returns the three counts.
TickReturn ==
  /\ tick.pc = "replace"
  /\ tick.i > Len(tick.stale_records)
  /\ tick' = [tick EXCEPT
                !.pc = "done",
                !.result = Some([total_found |-> Len(tick.in_progress_records),
                                 stale_found |-> Len(tick.stale_records),
                                 converted_count |-> tick.converted_count])]
  /\ UNCHANGED <<initial, storeVars, resetVars, arb>>

\* A worker takes a pending row: the row is in process from then on.  A row
\* is retried MaxRetry times at most.
WorkerStart ==
  \E row \in DOMAIN table :
  /\ call.pc = "idle"
  /\ CopiesIn(row, table) > 0
  /\ row.PIPELINE_STATUS = Some("PENDING")
  /\ CurrentRetry(row) < MaxRetry
  /\ LET started == [row EXCEPT !.PIPELINE_STATUS = Some("IN_PROCESS"),
                                !.PIPELINE_START_TIME = Some(1)]
     IN  /\ table' = (table (-) SetToBag({row})) (+) SetToBag({started})
         /\ shadow' = (shadow (-) SetToBag({row})) (+) SetToBag({started})
  /\ UNCHANGED <<session, call, tick, initial, resetVars, arb>>

\* A worker ends the run of an in-process row.
WorkerFinish ==
  \E row \in DOMAIN table :
  /\ call.pc = "idle"
  /\ CopiesIn(row, table) > 0
  /\ row.PIPELINE_STATUS = Some("IN_PROCESS")
  /\ LET finished == [row EXCEPT !.PIPELINE_STATUS = Some("COMPLETED"),
                                 !.PIPELINE_END_TIME = Some(2),
                                 !.PIPELINE_DURATION = Some(1)]
     IN  /\ table' = (table (-) SetToBag({row})) (+) SetToBag({finished})
         /\ shadow' = (shadow (-) SetToBag({row})) (+) SetToBag({finished})
  /\ UNCHANGED <<session, call, tick, initial, resetVars, arb>>

NextReclaimer ==
  \/ \E config \in TickConfigs, now \in NowValues : TickStart(config, now)
  \/ TickFetchCall
  \/ \E ok \in BOOLEAN : FetchInProcess(ok)
  \/ TickFetchReturn
  \/ TickClassify
  \/ \E ok \in BOOLEAN : TickAlert(ok)
  \/ TickConvert
  \/ TickReplaceCall
  \/ CallStep
  \/ TickReplaceReturn
  \/ TickReturn
  \/ WorkerStart
  \/ WorkerFinish

SpecReclaimer == InitReclaimer /\ [][NextReclaimer]_vars

(***************************************************************************)
(* Claims about the drive store.                                           *)
(***************************************************************************)
\* The call has logged or issued the event.
Issued(event) == \E k \in 1..Len(call.events) : call.events[k] = event

\* The first of the events comes before every occurrence of the second.
Precedes(first, second) ==
  \A k \in 1..Len(call.events) :
    call.events[k] = second => \E j \in 1..(k - 1) : call.events[j] = first

\* The failures of the transaction between its DELETE and its commit.
TransactionFailures ==
  {Some("delete"), Some("delete_count"), Some("insert"), Some("insert_count"), Some("commit")}

\* C2: replace_row commits only when its DELETE and its INSERT each affected
\* exactly one row; when the DELETE or the INSERT raises or reports another
\* count, or the commit raises, the transaction is rolled back, the call
\* ends with an error, and the table holds the rows it held before the call.
C2_CommitsOnlySingleRowSwap ==
  call.op = "replace" =>
    /\ call.committed =>
         call.delete_rows_affected = Some(1) /\ call.insert_rows_affected = Some(1)
    /\ call.failed_at \in TransactionFailures =>
         /\ call.error # None
         /\ ~call.committed
         /\ table = shadow
         /\ call.pc = "done" =>
              Issued("ROLLBACK") /\ session.deleted = EmptyBag /\ session.inserted = EmptyBag

\* A transaction whose DELETE hit two rows has ended in an error.
C2_Witness ==
  /\ call.op = "replace"
  /\ call.pc = "done"
  /\ call.failed_at = Some("delete_count")
  /\ call.delete_rows_affected = Some(2)
  /\ call.error # None
  /\ BagCardinality(table) = 2

\* C3: in replace_row and delete_one a DELETE is issued only after the
\* before-image SELECT returned exactly one row and that row was logged
\* whole as RECORD_BEFORE_DELETE; when the SELECT returns no row or more
\* than one the call fails and neither DELETE nor INSERT is executed.
C3_DeleteOnlyAfterBeforeImage ==
  call.op \in {"replace", "delete_one"} =>
    /\ Issued("DELETE") =>
         /\ call.records_found = Some(1)
         /\ call.before_image # None
         /\ call.before_image[1].PIPELINE_ID = call.pipeline_id
         /\ DOMAIN call.before_image[1] = DOMAIN InProcessRow(Some(IdA))
         /\ Precedes("SELECT", "RECORD_BEFORE_DELETE")
         /\ Precedes("RECORD_BEFORE_DELETE", "DELETE")
    /\ (call.records_found # None /\ call.records_found # Some(1)) =>
         /\ ~Issued("DELETE")
         /\ ~Issued("INSERT")
         /\ call.error # None
         /\ call.failed_at = IF call.records_found = Some(0)
                             THEN Some("DELETE_RECORD_NOT_FOUND")
                             ELSE Some("DELETE_MULTIPLE_RECORDS_FOUND")

\* A delete_one that found its row, logged it and deleted it.
C3_Witness ==
  /\ call.op = "delete_one"
  /\ call.pc = "done"
  /\ call.error = None
  /\ Issued("DELETE")
  /\ call.before_image # None
  /\ CopiesIn(call.before_image[1], table) = 0

\* C5: a replace_row whose two records carry different PIPELINE_IDs, or one
\* of them a missing, empty or blank id, fails its validation before a
\* connection is opened and before a statement is issued, and the table is
\* unchanged.
C5_MismatchFailsBeforeConnection ==
  (/\ call.op = "replace"
   /\ \/ call.original[1].PIPELINE_ID # call.updated[1].PIPELINE_ID
      \/ ValidatePipelineId(call.original[1].PIPELINE_ID) = None
      \/ ValidatePipelineId(call.updated[1].PIPELINE_ID) = None)
    => /\ call.pc = "done"
       /\ call.failed_at \in {Some("config"), Some("validation")}
       /\ call.events = <<>>
       /\ session = NoSession
       /\ table = shadow

(***************************************************************************)
(* Claims about the replacement of a row as the reclaimer performs it.     *)
(***************************************************************************)
\* The number of rows that carry the id.
IdCount(rows, id) ==
  BagCardinality([r \in {x \in DOMAIN rows : x.PIPELINE_ID = id} |-> rows[r]])

\* C1: from the start to the end of a replace_row for pipeline id p, a
\* reader of the committed table sees exactly one row with id p, and that
\* row is the original or the updated one.  The call is one the store
\* accepted for records of one id, made when the original was the only row
\* of that id.
C1_ReaderSeesExactlyOneRow ==
  (/\ call.op = "replace"
   /\ call.pipeline_id # None
   /\ call.original[1].PIPELINE_ID = call.updated[1].PIPELINE_ID
   /\ Matching(shadow, call.original[1].PIPELINE_ID[1]) = SetToBag({call.original[1]}))
    => LET seen == Matching(table, call.original[1].PIPELINE_ID[1])
       IN  /\ BagCardinality(seen) = 1
           /\ DOMAIN seen \subseteq {call.original[1], call.updated[1]}

\* C4: from a table of unique pipeline ids, whatever the ticks of the
\* reclaimer did, every pipeline id is in the table as often as it was
\* initially.
C4_SamePipelineIds ==
  \A id \in {r.PIPELINE_ID : r \in (DOMAIN table) \cup (DOMAIN initial)} :
    IdCount(table, id) = IdCount(initial, id)


(***************************************************************************)
(* The staleness evaluator on its own: identify_stale_records applied to   *)
(* lists of in-process rows that differ in their expected duration and in  *)
(* the time they started.                                                  *)
(***************************************************************************)
MaxBatch == 2

\* The expected durations of a row: none of its own (the config's two
\* seconds apply), one second, zero seconds, and one of a unit the parser
\* does not know.
ExpDurationValues == {None, Some(<<"1", "s">>), Some(<<"0", "s">>), Some(<<"1", "w">>)}

StartTimeValues == {None, Some(1), Some(2)}

EvaluatorRows ==
  {[InProcessRow(Some(IdA)) EXCEPT !.PIPELINE_EXP_DURATION = exp_duration,
                                   !.PIPELINE_START_TIME = start_time] :
     exp_duration \in ExpDurationValues, start_time \in StartTimeValues}

EvaluatorBatches == UNION {[1..n -> EvaluatorRows] : n \in 0..MaxBatch}

\* The configs of the evaluator: the threshold factor is 1, 2 or left out.
EvaluatorConfigs ==
  {FullConfig, [FullConfig EXCEPT !.stale_threshold_factor = 2],
   Without(FullConfig, "stale_threshold_factor")}

InitEvaluator ==
  /\ table = EmptyBag
  /\ initial = table
  /\ shadow = table
  /\ session = NoSession
  /\ call = NoCall
  /\ tick \in {[NoTick EXCEPT !.config = config, !.now = now,
                              !.in_progress_records = list_of_python_dicts] :
                 list_of_python_dicts \in EvaluatorBatches, config \in EvaluatorConfigs,
                 now \in NowValues}
  /\ ResetIdle /\ ArbIdle

\* identify_stale_records is called with the list of in-process records,
\* the config and the clock the caller holds.
EvaluatorCall ==
  /\ tick.pc = "idle"
  /\ tick' = [tick EXCEPT !.pc = "classify"]
  /\ UNCHANGED <<initial, storeVars, resetVars, arb>>

NextEvaluator ==
  \/ EvaluatorCall
  \/ TickClassify

SpecEvaluator == InitEvaluator /\ [][NextEvaluator]_vars

\* The seconds a row is expected to run: its own expected duration or, when
\* it has none, the default of the config; a duration is the sum of its
\* matched terms.
ExpectedSeconds(r, config) ==
  LET own == r.PIPELINE_EXP_DURATION
  IN  ParseDurationStringToSeconds(IF own # None THEN own[1] ELSE config.PIPELINE_EXP_DURATION)

\* The row has run for longer than the threshold factor times its expected
\* duration.
ExceedsThreshold(r, config, now) ==
  /\ r.PIPELINE_START_TIME # None
  /\ ExpectedSeconds(r, config) # None
  /\ now - r.PIPELINE_START_TIME[1] > config.stale_threshold_factor * ExpectedSeconds(r, config)[1]

\* C15: identify_stale_records returns exactly the rows of its input whose
\* actual duration is strictly greater than stale_threshold_factor times
\* their expected duration (their own, or the config default), in input order.
C15_StaleIffStrictlyOverThreshold ==
  (tick.pc \in {"alert", "done"} /\ tick.error = None) =>
    tick.stale_records =
      SelectSeq(tick.in_progress_records,
                LAMBDA r : ExceedsThreshold(r, tick.config, tick.now))


\* The config with the threshold factor 3 where it has none.
WithDefaultFactor(config) ==
  IF "stale_threshold_factor" \in DOMAIN config THEN config
  ELSE [k \in DOMAIN config \cup {"stale_threshold_factor"} |->
          IF k = "stale_threshold_factor" THEN 3 ELSE config[k]]

\* C16: with stale_threshold_factor left out of the config the evaluator
\* does not fail, and classifies the batch with the factor 3.
C16_OmittedFactorDefaultsToThree ==
  (tick.pc \in {"alert", "done"} /\ "stale_threshold_factor" \notin DOMAIN tick.config) =>
    /\ tick.error = None
    /\ tick.stale_records =
         SelectSeq(tick.in_progress_records,
                   LAMBDA r : ExceedsThreshold(r, WithDefaultFactor(tick.config), tick.now))


(***************************************************************************)
(* Claims about the ticks of the reclaimer.                                *)
(***************************************************************************)
\* The evaluator can run on the tick's config.
EvaluatorConfigOk == {"timezone", "stale_threshold_factor"} \subseteq DOMAIN tick.config

\* The fetch of the tick returned rows and the evaluator finds none stale.
NoneStale ==
  /\ tick.in_progress_records # <<>>
  /\ EvaluatorConfigOk
  /\ IdentifyStaleRecords(tick.in_progress_records, tick.config, tick.now) = <<>>

\* C17: a tick whose fetch returns no row returns three zeros; a tick whose
\* rows are all fresh returns their number and two zeros; in both cases no
\* stale alert is sent and no row is handed to the DELETE and INSERT.
C17_EarlyExits ==
  /\ (tick.pc = "done" /\ tick.error = None /\ tick.in_progress_records = <<>>) =>
       tick.result = Some([total_found |-> 0, stale_found |-> 0, converted_count |-> 0])
  /\ (tick.pc = "done" /\ tick.error = None /\ NoneStale) =>
       tick.result = Some([total_found |-> Len(tick.in_progress_records),
                           stale_found |-> 0, converted_count |-> 0])
  /\ (tick.in_progress_records = <<>> \/ NoneStale) =>
       /\ tick.alerts = <<>>
       /\ tick.submitted = <<>>
       /\ ~(call.caller = "tick" /\ call.op = "replace")

\* A tick over one fresh row has returned.
C17_Witness ==
  /\ tick.pc = "done"
  /\ NoneStale
  /\ tick.result = Some([total_found |-> 1, stale_found |-> 0, converted_count |-> 0])
  /\ tick.alerts = <<>>


\* C18: a stale alert that fails does not stop the tick: the tick still
\* hands every stale row to the replacement and returns its counts.
C18_AlertIsBestEffort ==
  (tick.pc = "done" /\ tick.alerts = <<FALSE>>) =>
    /\ tick.error = None
    /\ tick.result # None
    /\ tick.submitted = tick.original_stale_records


NextSelector ==
  \/ \E config \in SelectorConfigs, now \in SelectorNowValues : GetValidPendingCall(config, now)
  \/ \E ok \in BOOLEAN : Connect(ok)
  \/ \E ok \in BOOLEAN : FetchValidPending(ok)
  \/ \E ok \in BOOLEAN : Close(ok)
  \/ ApiReturn
  \/ \E row \in NewRows : CreateRow(row)
  \/ WorkerStart

SpecSelector == InitSelector /\ [][NextSelector]_vars

\* C20: get_valid_pending_records returns only PENDING rows whose
\* QUERY_WINDOW_START_TIME is at most now - x_time_back - granularity, in
\* ascending order of QUERY_WINDOW_START_TIME, and at most
\* max_pending_records of them.
C20_OnlyAdmissiblePendingInOrder ==
  (call.op = "get_valid_pending" /\ call.results # None) =>
    LET results == call.results[1]
        config == call.config[1]
        x_time_back == ParseDurationStringToSeconds(config.x_time_back)[1]
        granularity == ParseDurationStringToSeconds(config.granularity)[1]
    IN  /\ \A k \in 1..Len(results) :
             /\ results[k].PIPELINE_STATUS = Some("PENDING")
             /\ results[k].QUERY_WINDOW_START_TIME[1] <= call.now[1] - x_time_back - granularity
        /\ \A j, k \in 1..Len(results) :
             j < k => results[j].QUERY_WINDOW_START_TIME[1]
                        <= results[k].QUERY_WINDOW_START_TIME[1]
        /\ Len(results) <= config.max_pending_records

\* Two pending rows were admissible, one of them at the bound, and the
\* limit was one row: the older row was returned.
C20_Witness ==
  /\ call.op = "get_valid_pending"
  /\ call.max_accepted_time = Some(2)
  /\ call.config[1].max_pending_records = 1
  /\ CopiesIn(PendingRow(Some(IdA)), table) = 1
  /\ CopiesIn(PendingRow(Some(IdPaddedA)), table) = 1
  /\ call.results = Some(<<PendingRow(Some(IdA))>>)


\* C21: get_valid_pending_records returns no row whose
\* QUERY_WINDOW_END_TIME is later than max_accepted_time, that is, now less
\* x_time_back and granularity.
C21_WindowEndNotAfterMaxAcceptedTime ==
  (call.op = "get_valid_pending" /\ call.results # None) =>
    \A k \in 1..Len(call.results[1]) :
      call.results[1][k].QUERY_WINDOW_END_TIME[1] <= call.max_accepted_time[1]


(***************************************************************************)
(* The two fetches over tables that also hold rows the filters must leave  *)
(* out: a gating flag that is not YES, or the quadruple of another         *)
(* pipeline.                                                               *)
(***************************************************************************)
IdC == <<"C">>

\* The ways a row is out of the scope of the config.
OutOfScope(r) ==
  {[r EXCEPT !.PIPELINE_ID = Some(IdC), !.CONTINUITY_CHECK_PERFORMED = Some("NO")],
   [r EXCEPT !.PIPELINE_ID = Some(IdC), !.CAN_FETCH_HISTORICAL_DATA = Some("NO")],
   [r EXCEPT !.PIPELINE_ID = Some(IdC), !.SOURCE_NAME = Some("s2")],
   [r EXCEPT !.PIPELINE_ID = Some(IdC), !.SOURCE_SUB_TYPE = Some("t2")]}

\* An in-process row and a pending row of the config, and a third row, in
\* process or pending, out of its scope.
GatingTables ==
  {SetToBag({InProcessRow(Some(IdA)), PendingRow(Some(IdB)), other}) :
     other \in OutOfScope(InProcessRow(Some(IdA))) \cup OutOfScope(PendingRow(Some(IdB)))}

InitGating ==
  /\ table \in GatingTables
  /\ initial = table
  /\ shadow = table
  /\ session = NoSession
  /\ call = NoCall
  /\ tick = NoTick
  /\ ResetIdle /\ ArbIdle

\* Ticks of the reclaimer and calls of the selector.
NextGating ==
  \/ \E now \in NowValues : TickStart(FullConfig, now)
  \/ TickFetchCall
  \/ \E ok \in BOOLEAN : FetchInProcess(ok)
  \/ TickFetchReturn
  \/ TickClassify
  \/ \E ok \in BOOLEAN : TickAlert(ok)
  \/ TickConvert
  \/ TickReplaceCall
  \/ CallStep
  \/ TickReplaceReturn
  \/ TickReturn
  \/ \E config \in SelectorConfigs, now \in SelectorNowValues : GetValidPendingCall(config, now)
  \/ \E ok \in BOOLEAN : FetchValidPending(ok)
  \/ ApiReturn

SpecGating == InitGating /\ [][NextGating]_vars

\* The row is in the scope of the config: both gating flags are YES and the
\* classification quadruple is the config's.
InScope(r, config) ==
  /\ r.CONTINUITY_CHECK_PERFORMED = Some("YES")
  /\ r.CAN_FETCH_HISTORICAL_DATA = Some("YES")
  /\ <<r.PIPELINE_NAME, r.SOURCE_NAME, r.SOURCE_CATEGORY, r.SOURCE_SUB_TYPE>> =
       <<Some(config.PIPELINE_NAME), Some(config.SOURCE_NAME),
         Some(config.SOURCE_CATEGORY), Some(config.SOURCE_SUB_TYPE)>>

\* C22: the fetch of the in-process rows returns exactly the IN_PROCESS
\* rows in the scope of the config, in ascending order of
\* QUERY_WINDOW_START_TIME; a tick reclaims no row out of the scope, and the
\* selector returns none.
C22_FetchesOnlyRowsInScope ==
  /\ tick.pc = "classify" =>
       LET fetched == tick.in_progress_records
       IN  /\ {fetched[k] : k \in 1..Len(fetched)} =
                {r \in DOMAIN table :
                   r.PIPELINE_STATUS = Some("IN_PROCESS") /\ InScope(r, tick.config)}
           /\ \A r \in DOMAIN table :
                Cardinality({k \in 1..Len(fetched) : fetched[k] = r}) <= CopiesIn(r, table)
           /\ \A j, k \in 1..Len(fetched) :
                j < k => fetched[j].QUERY_WINDOW_START_TIME[1]
                           <= fetched[k].QUERY_WINDOW_START_TIME[1]
  /\ \A k \in 1..Len(tick.submitted) : InScope(tick.submitted[k], tick.config)
  /\ \A r \in DOMAIN initial :
       ~InScope(r, FullConfig) => CopiesIn(r, table) = CopiesIn(r, initial)
  /\ (call.op = "get_valid_pending" /\ call.results # None) =>
       \A k \in 1..Len(call.results[1]) : InScope(call.results[1][k], call.config[1])

\* A tick has replaced the stale row of the config and left a stale
\* in-process row whose CONTINUITY_CHECK_PERFORMED is NO where it was.
C22_Witness ==
  /\ tick.pc = "done"
  /\ tick.outcomes = <<TRUE>>
  /\ Len(tick.in_progress_records) = 1
  /\ \E r \in DOMAIN table :
       /\ r.PIPELINE_STATUS = Some("IN_PROCESS")
       /\ r.CONTINUITY_CHECK_PERFORMED = Some("NO")


\* C23: a call of the drive store hands the connection it opened to
\* conn.close() once, before it returns or raises; a close that raises is
\* logged and the call ends as it would have ended; no second connection is
\* opened while one is held.
C23_ConnectionClosedOnce ==
  /\ call.closed <= call.opened
  /\ call.opened <= 1
  /\ session.held = call.opened - call.closed
  /\ session.conn = "open" => session.held = 1
  /\ call.pc \in {"idle", "done"} =>
       /\ call.closed = call.opened
       /\ session.held = 0
       /\ session.conn = "none"
  /\ (call.pc = "done" /\ Issued("CLOSE_FAILED")) =>
       /\ call.closed = 1
       /\ call.failed_at = None => call.error = None
       /\ call.failed_at # None => call.error # Some("close")

\* A fetch of the in-process rows returned its rows although the close of
\* its connection raised.
C23_Witness ==
  /\ call.op = "find_in_process"
  /\ call.pc = "done"
  /\ Issued("CLOSE_FAILED")
  /\ call.error = None
  /\ call.results # None /\ call.results # Some(<<>>)
  /\ call.opened = 1
  /\ call.closed = 1


(***************************************************************************)
(* The two duration parsers on their own, applied to strings made of terms *)
(* of distinct units, and to a value that is not a string.                 *)
(***************************************************************************)
MaxTerms == 2

\* The terms of a duration string: each unit the parsers know, values of
\* zero and of two digits among them, and weeks, which they do not know.
Terms ==
  {<<"2", "d">>, <<"3", "h">>, <<"1", "2", "h">>, <<"4", "m">>, <<"9", "s">>, <<"0", "s">>,
   <<"6", "0", "s">>, <<"1", "w">>}

UnitOf(term) == term[Len(term)]

\* The sequences of at most MaxTerms terms, no unit twice.
TermLists ==
  UNION {{l \in [1..n -> Terms] : \A j, k \in 1..n : j # k => UnitOf(l[j]) # UnitOf(l[k])} :
           n \in 0..MaxTerms}

\* The string that the terms make, one after the other.
RECURSIVE Concat(_)
Concat(terms) == IF terms = <<>> THEN <<>> ELSE Head(terms) \o Concat(Tail(terms))

Parsers == {"parse_duration_string_to_seconds", "parse_duration_to_seconds"}

InitParser ==
  /\ table = EmptyBag
  /\ shadow = table
  /\ session = NoSession
  /\ call = NoCall
  /\ ResetIdle /\ ArbIdle /\ TickIdle

\* A parser is called with the string of the terms, or with a value that is
\* not a string (None): both parsers raise ValueError on it, the first by
\* its isinstance check, the second by wrapping the TypeError of re.search.
ParseCall(parser, terms) ==
  /\ call.pc = "idle"
  /\ LET duration_string == IF terms = None THEN None ELSE Some(Concat(terms[1]))
         total_seconds ==
           IF duration_string = None THEN None
           ELSE IF parser = "parse_duration_string_to_seconds"
           THEN ParseDurationStringToSeconds(duration_string[1])
           ELSE ParseDurationToSeconds(duration_string[1])
     IN  call' = [NoCall EXCEPT !.op = parser, !.caller = "api", !.pc = "done",
                                !.terms = terms, !.duration_string = duration_string,
                                !.total_seconds = total_seconds,
                                !.error = IF total_seconds = None THEN Some("ValueError")
                                          ELSE None]
  /\ shadow' = table
  /\ UNCHANGED <<table, session, resetVars, arb, tickVars>>

NextParser ==
  \/ \E parser \in Parsers, terms \in {None} \cup {Some(l) : l \in TermLists} :
       ParseCall(parser, terms)
  \/ ApiReturn

SpecParser == InitParser /\ [][NextParser]_vars

\* The seconds of a unit letter, zero for a letter the parsers do not know.
SecondsOfUnit(unit) ==
  IF unit = "d" THEN 86400 ELSE IF unit = "h" THEN 3600 ELSE IF unit = "m" THEN 60
  ELSE IF unit = "s" THEN 1 ELSE 0

\* The sum of value times unit-seconds over the terms.
RECURSIVE SumOfTerms(_)
SumOfTerms(terms) ==
  IF terms = <<>> THEN 0
  ELSE IntOf(SubSeq(Head(terms), 1, Len(Head(terms)) - 1)) * SecondsOfUnit(UnitOf(Head(terms)))
         + SumOfTerms(Tail(terms))

\* A term of the list has a unit the parsers know.
SomeUnitKnown(terms) == \E k \in 1..Len(terms) : SecondsOfUnit(UnitOf(terms[k])) # 0

\* C24: each parser returns the sum of value times unit-seconds over the
\* terms of known unit in the string, whatever the order of the terms, and
\* leaves out the terms of unknown unit.
C24_ParserReturnsSumOfTerms ==
  (call.op \in Parsers /\ call.pc = "done" /\ call.terms # None
     /\ SomeUnitKnown(call.terms[1])) =>
    call.total_seconds = Some(SumOfTerms(call.terms[1]))

\* C25: each parser raises exactly when its input is not a string or no
\* term of known unit is in it; a string whose terms sum to zero, such as
\* '0s', is parsed to 0.
C25_ParserFailsOnlyWithoutKnownUnit ==
  (call.op \in Parsers /\ call.pc = "done") =>
    /\ call.error # None <=> (call.terms = None \/ ~SomeUnitKnown(call.terms[1]))
    /\ call.duration_string = Some(<<"0", "s">>) => call.total_seconds = Some(0)


\* The drive config with another password.
OtherPassword(sf_config) == [sf_config EXCEPT !.password = "other"]

\* What the event carries when the call runs under the config.
Carried(event, sf_config) ==
  IF event = "SF_CONNECTION_FAILED" THEN SafeConfig(sf_config) ELSE SfConfigKeys(sf_config)

\* The log events of the call do not depend on the password.
PasswordNotLogged ==
  \A k \in 1..Len(call.payloads) :
    /\ call.payloads[k][2] =
         Carried(call.payloads[k][1], OtherPassword(call.config[1].sf_drive_config))
    /\ \A field \in DOMAIN call.payloads[k][2] :
         call.payloads[k][2][field] # call.config[1].sf_drive_config.password

\* C26: the log events of a call are the same under a config that differs
\* in its password only; where an event carries the drive config, the
\* password is replaced by one sentinel, the same at every log site.
C26_PasswordRedactedByOneSentinel ==
  /\ PasswordNotLogged
  /\ \A j, k \in 1..Len(call.payloads) :
       call.payloads[j][2].password = call.payloads[k][2].password


ArbLogged == {k \in 1..Len(arb.events) : arb.events[k][1] = "log"}

\* The log sites the invocation has left behind.
ArbLogsDue ==
  LET past(places) == IF arb.pc \in places THEN 1 ELSE 0
      crash(i) == IF arb.outcomes[i] = "raises" /\ ~(i = arb.probe /\ arb.pc = "crash_log")
                  THEN 1 ELSE 0
      test(i) == IF i = arb.probe /\ arb.pc \in {"crash_log", "test_log"} THEN 0 ELSE 1
      RECURSIVE probes(_)
      probes(i) == IF i = 0 THEN 0 ELSE crash(i) + test(i) + probes(i - 1)
  IN  past({"probe", "crash_log", "test_log", "health_complete", "capability_start",
            "decide", "alert", "decision_log", "return", "returned"})
      + probes(Len(arb.outcomes))
      + past({"capability_start", "decide", "alert", "decision_log", "return", "returned"})
      + past({"decide", "alert", "decision_log", "return", "returned"})
      + past({"return", "returned"})

\* C30: a logger that fails at a log site of check_all_connections or of
\* determine_pipeline_capabilities ends the invocation with an error, and
\* no health result and no decision is returned: an invocation that goes
\* on has issued the log event of every log site behind it.
C30_LoggerFailureIsFatal ==
  /\ arb.error = Some("Critical: Logger failed") => arb.pc = "raised" /\ arb.result = None
  /\ arb.pc \notin {"idle", "raised"} => Cardinality(ArbLogged) = ArbLogsDue

\* The logger failed on the record of a probe that crashed.
C30_Witness ==
  /\ arb.pc = "raised"
  /\ arb.error = Some("Critical: Logger failed")
  /\ arb.outcomes = <<"true", "raises">>
  /\ Cardinality(ArbLogged) = 2
  /\ arb.result = None


\* C28: when the transaction of replace_row fails and its rollback fails as
\* well, the failure of the rollback is logged and the error the caller
\* gets is the error of the transaction, whether the DELETE, the INSERT or
\* the commit failed.
C28_RollbackFailureKeepsOriginalError ==
  /\ (/\ call.op = "replace"
      /\ call.pc = "close"
      /\ call.failed_at # None
      /\ ~session.autocommit) =>
       /\ Issued("ROLLBACK_FAILED")
       /\ call.error = call.failed_at
  /\ (/\ call.op = "replace"
      /\ call.pc \in {"close", "done"}
      /\ call.failed_at \in TransactionFailures \cup {Some("commit_log")}) =>
       call.error = call.failed_at


\* C29: for every stale row the original handed to the replacement is a
\* copy of its own, equal field for field to the row as the fetch returned
\* it; what the conversion writes to the updated record does not show in it.
C29_OriginalIsPreserved ==
  /\ \A k \in 1..Len(tick.original_stale_records) :
       /\ tick.original_stale_records[k] =
            IdentifyStaleRecords(tick.in_progress_records, tick.config, tick.now)[k]
       /\ tick.original_stale_records[k].PIPELINE_STATUS = Some("IN_PROCESS")
       /\ tick.pc \in {"replace", "replacing"} =>
            /\ tick.stale_records[k] = ConvertRecord(tick.original_stale_records[k])
            /\ tick.stale_records[k] # tick.original_stale_records[k]
  /\ (call.caller = "tick" /\ call.op = "replace") =>
       /\ call.original = Some(tick.original_stale_records[tick.i])
       /\ call.updated = Some(tick.stale_records[tick.i])
       /\ \E j \in 1..Len(tick.in_progress_records) :
            tick.in_progress_records[j] = call.original[1]

\* The second stale row of a tick is being replaced: its original is in
\* process as it was fetched, its updated record is pending.
C29_Witness ==
  /\ tick.pc = "replacing"
  /\ tick.i = 2
  /\ call.caller = "tick"
  /\ call.op = "replace"
  /\ call.original = Some(tick.in_progress_records[2])
  /\ call.original[1].PIPELINE_STATUS = Some("IN_PROCESS")
  /\ call.original[1].PIPELINE_START_TIME # None
  /\ call.updated[1].PIPELINE_STATUS = Some("PENDING")
  /\ call.updated[1].PIPELINE_START_TIME = None


\* The row cannot be classified: its expected duration has no known unit,
\* or it has no start time.
RowFails(r, config) ==
  r.PIPELINE_START_TIME = None \/ ExpectedSeconds(r, config) = None

\* The records the evaluator logged a warning for.
Warned == {tick.warnings[k] : k \in 1..Len(tick.warnings)}

\* C31: a row the evaluator cannot classify is logged with a warning and
\* left out; every other row of the batch is classified, and the evaluator
\* returns.
C31_RowFailureSkipsOnlyThatRow ==
  (tick.pc \in {"alert", "done"} /\ EvaluatorConfigOk) =>
    /\ tick.error = None
    /\ \A k \in 1..Len(tick.in_progress_records) :
         RowFails(tick.in_progress_records[k], tick.config) =>
           tick.in_progress_records[k] \in Warned
    /\ Warned \subseteq {tick.in_progress_records[k] : k \in 1..Len(tick.in_progress_records)}
    /\ tick.stale_records =
         SelectSeq(tick.in_progress_records,
                   LAMBDA r : r \notin Warned /\ ExceedsThreshold(r, tick.config, tick.now))

\* The first row of the batch has a duration of an unknown unit, the second
\* is stale and is returned.
C31_Witness ==
  /\ tick.pc = "alert"
  /\ Len(tick.in_progress_records) = 2
  /\ tick.in_progress_records[1].PIPELINE_EXP_DURATION = Some(<<"1", "w">>)
  /\ tick.warnings = <<tick.in_progress_records[1]>>
  /\ tick.stale_records = <<tick.in_progress_records[2]>>


\* The replacements of the tick that committed.
CommittedSwaps == Cardinality({k \in 1..Len(tick.outcomes) : tick.outcomes[k]})

\* C32: the converted count a tick returns is the number of stale rows whose
\* delete and insert committed in the tick, so converted <= stale <= total,
\* and a row whose replacement failed is not counted.
C32_ConvertedCountsCommittedSwaps ==
  (tick.pc = "done" /\ tick.result # None) =>
    /\ tick.result[1].converted_count = CommittedSwaps
    /\ tick.result[1].converted_count <= tick.result[1].stale_found
    /\ tick.result[1].stale_found <= tick.result[1].total_found


\* The columns of phase P.
PhaseColumns(r, P) == <<r[Col(P, "ENABLED")]>> \o PhaseFields(r, P)

\* The phases whose columns differ between the input and the output of the
\* resetter.
PhasesChanged ==
  {i \in 1..Len(Phases) : PhaseColumns(updated[1], Phases[i]) # PhaseColumns(record, Phases[i])}

\* C33: the cascade changes the columns of one phase at most: none when
\* PHASE_COMPLETED is null or empty, and otherwise the first phase in the
\* fixed order that is enabled and IN_PROCESS, which it resets; the columns
\* of every other phase are left as they were.
C33_CascadeIsFlatRule ==
  updated # None =>
    /\ Cardinality(PhasesChanged) <= 1
    /\ (record.PHASE_COMPLETED = None \/ record.PHASE_COMPLETED = Some("")) =>
         PhasesChanged = {}
    /\ \A i \in 1..Len(Phases) :
         IF StuckAt(record, i)
         THEN /\ PhasesChanged = {i}
              /\ PhaseIsReset(updated[1], Phases[i])
              /\ updated[1][Col(Phases[i], "ENABLED")] = Some(TRUE)
         ELSE i \notin PhasesChanged

\* The first two phases are done, the third is disabled though in process,
\* the fourth is stuck and reset, the fifth is in process and kept.
C33_Witness ==
  /\ updated # None
  /\ record.SRC_STG_XFER_STATUS = Some("COMPLETED")
  /\ record.SRC_STG_AUDIT_STATUS = Some("FAILED")
  /\ record.STG_TGT_XFER_ENABLED = Some(FALSE)
  /\ record.STG_TGT_XFER_STATUS = Some("IN_PROCESS")
  /\ StuckAt(record, 4)
  /\ record.SRC_TGT_AUDIT_ENABLED = Some(TRUE)
  /\ record.SRC_TGT_AUDIT_STATUS = Some("IN_PROCESS")
  /\ PhasesChanged = {4}
  /\ updated[1].SRC_TGT_AUDIT_STATUS = Some("IN_PROCESS")


\* C34: a replacement of the tick that commits has deleted a row that was
\* still IN_PROCESS at its DELETE, and that was the row of the fetch: a row
\* a worker finished or changed after the fetch is not overwritten with the
\* pending record computed from the fetch.
C34_NoLostUpdate ==
  (/\ call.caller = "tick"
   /\ call.op = "replace"
   /\ call.committed) =>
    /\ call.before_image[1].PIPELINE_STATUS = Some("IN_PROCESS")
    /\ call.before_image[1].PIPELINE_ID = call.original[1].PIPELINE_ID =>
         call.before_image[1] = call.original[1]


\* The columns a reclaim leaves alone: the id, the classification, the
\* window, the gating flags, the expected duration and the ENABLED flags.
FrameColumns ==
  {"PIPELINE_ID", "PIPELINE_NAME", "SOURCE_NAME", "SOURCE_CATEGORY", "SOURCE_SUB_TYPE",
   "QUERY_WINDOW_START_TIME", "QUERY_WINDOW_END_TIME", "CONTINUITY_CHECK_PERFORMED",
   "CAN_FETCH_HISTORICAL_DATA", "PIPELINE_EXP_DURATION"}
  \cup {Col(P, "ENABLED") : P \in PhaseSet}

\* The rows of the bag that carry the id.
RowsOf(rows, id) == {r \in DOMAIN rows : r.PIPELINE_ID = id}

\* C35: a committed reclaim of the row with pipeline id p leaves every row
\* of another id as it was, and leaves p's row with its id, classification,
\* window, gating flags, expected duration and ENABLED flags.
C35_ReclaimChangesOnlyItsRow ==
  (/\ call.caller = "tick"
   /\ call.op = "replace"
   /\ call.committed) =>
    LET p == call.original[1].PIPELINE_ID
    IN  /\ \A r \in (DOMAIN table) \cup (DOMAIN shadow) :
             r.PIPELINE_ID # p => CopiesIn(r, table) = CopiesIn(r, shadow)
        /\ IdCount(table, p) = IdCount(shadow, p)
        /\ \A before \in RowsOf(shadow, p), after \in RowsOf(table, p) :
             \A column \in FrameColumns : after[column] = before[column]


\* The places of the alerts and of the decision logs among the events of the
\* invocation.
AlertPlaces == {k \in 1..Len(arb.events) : arb.events[k][1] = "alert"}

DecisionLogPlaces ==
  {k \in 1..Len(arb.events) :
     /\ arb.events[k][1] = "log"
     /\ arb.events[k][3] \in {"DRIVE_CONNECTION_FAILED", "NO_DATA_CONNECTIONS",
                              "CAPABILITY_CHECK_COMPLETE"}}

\* C36: an invocation of the arbiter dispatches one alert at most; one that
\* returns a decision has dispatched exactly one, before the decision was
\* logged with the dag_run_id and before it was returned.
C36_OneAlertBeforeDecision ==
  /\ Cardinality(AlertPlaces) <= 1
  /\ \A k \in DecisionLogPlaces :
       /\ arb.events[k][4] = arb.dag_run_id[1]
       /\ \E j \in AlertPlaces : j < k
  /\ (arb.pc \in {"return", "returned"} \/ arb.result # None) =>
       /\ Cardinality(AlertPlaces) = 1
       /\ Cardinality(DecisionLogPlaces) = 1
       /\ \A j \in AlertPlaces : arb.events[j][4] = arb.dag_run_id[1]

\* The arbiter returned the decision to go on: its last two events are the
\* alert and the log of the decision.
C36_Witness ==
  /\ arb.pc = "returned"
  /\ arb.result[1].exit_dag = FALSE
  /\ arb.dag_run_id = Some("d2")
  /\ AlertPlaces = {Len(arb.events) - 1}
  /\ DecisionLogPlaces = {Len(arb.events)}


\* How often the row is among the results.
TimesIn(results, r) == Cardinality({k \in 1..Len(results) : results[k] = r})

\* C37: the rows get_valid_pending_records returns are the first
\* max_pending_records of the admissible rows in ascending order of
\* QUERY_WINDOW_START_TIME: as many as the limit allows, and no admissible
\* row that is left out has an earlier window start than a row returned.
C37_LimitKeepsEarliestWindows ==
  [][(call.pc = "fetch_pending" /\ call'.results # None) =>
       LET results == call'.results[1]
           config == call.config[1]
           admissible == {r \in DOMAIN table :
                            ValidPendingFilter(r, config, call.max_accepted_time[1])}
           n == BagCardinality([r \in admissible |-> table[r]])
       IN  /\ Len(results) = IF n <= config.max_pending_records
                             THEN n ELSE config.max_pending_records
           /\ \A k \in 1..Len(results) : results[k] \in admissible
           /\ \A r \in admissible :
                /\ TimesIn(results, r) <= table[r]
                /\ TimesIn(results, r) < table[r] =>
                     \A k \in 1..Len(results) :
                       results[k].QUERY_WINDOW_START_TIME[1]
                         <= r.QUERY_WINDOW_START_TIME[1]]_vars

\* Two pending rows were admissible under a limit of one row: the row of
\* the earlier window was returned, the other left out.
C37_Witness ==
  /\ call.op = "get_valid_pending"
  /\ call.pc = "close"
  /\ call.max_accepted_time = Some(3)
  /\ call.config[1].max_pending_records = 1
  /\ table = SetToBag({PendingRow(Some(IdPaddedA)), PendingRow(Some(IdB))})
  /\ call.results = Some(<<PendingRow(Some(IdPaddedA))>>)


\* The retry counters the rows of the id carry, null read as zero.
Retries(rows, id) == {CurrentRetry(r) : r \in RowsOf(rows, id)}

\* The step commits the swap of the tick for the id.
SwapCommits(id) ==
  /\ call.caller = "tick"
  /\ call.op = "replace"
  /\ ~call.committed
  /\ call'.committed
  /\ call.original[1].PIPELINE_ID = id

\* C38: over the ticks of one reclaimer the retry_attempt_number the table
\* holds for a pipeline id never decreases: a swap of the row that commits
\* adds exactly one to it, and every other step, the steps of a swap that
\* is rolled back among them, leaves it as it was.
C38_RetryCounterMonotone ==
  [][\A id \in {r.PIPELINE_ID : r \in DOMAIN table} :
       Retries(table', id) =
         IF SwapCommits(id) THEN {n + 1 : n \in Retries(table, id)}
         ELSE Retries(table, id)]_vars


\* C39: what replace_row reports agrees with the table: it returns without
\* an error only when the swap committed, and when it raises, a failure of
\* the success log that follows the commit included, the table holds what
\* it held before the call.
C39_OutcomeMatchesTable ==
  (call.op = "replace" /\ call.pc = "done") =>
    /\ call.error = None => call.committed
    /\ call.error # None => ~call.committed /\ table = shadow

====
